---- MODULE Spec2Model ----
(***************************************************************************)
(* Model of the transform stage of the sales ETL pipeline:                 *)
(*   src/extract-transform-data/et_empregados.py  (employee repair)        *)
(*   src/extract-transform-data/et_vendas.py      (sales repair, dates)    *)
(*   src/extract-transform-data/et_produtos.py    (product repair)         *)
(* A DataFrame is a sequence of rows; a cell is a tagged value so that the *)
(* text of the CSV, the numbers pandas infers and NaN stay distinct.       *)
(***************************************************************************)
EXTENDS Integers, Sequences, FiniteSets, TLC

VARIABLES pc,        \* the next stage of the transform being run
          empCsv,    \* empregados.csv: the text cells of every line
          emp,       \* the employee DataFrame
          vendasCsv, \* vendas.csv: the text cells of every line
          vendas,    \* the sales DataFrame
          vcols,     \* the audit columns the sales DataFrame has so far
          vprev,     \* the sales DataFrame validate_and_fill_dates was given
          prodDb,    \* the rows of the table produtos that the sales transform fetches
          prodCsv,   \* produtos.csv: the text cells of every line
          prod,      \* the product DataFrame
          arquivos,  \* the input files that exist under bases-de-dados
          passo,     \* the number of the pipeline step that runs next
          iniciados, \* the numbers of the steps run_step was called for, in order
          resultado, \* what the last step function did: its result, or a raise
          log,       \* the records written to logs/pipeline_etl.log
          status,    \* the process of pipeline.py: running, or its exit status
          db,        \* the databases of the PostgreSQL server and their tables
          conexoes,  \* the databases a connection was asked for, in order
          entrada,   \* the DataFrame the last call of a load function was given
          carga      \* what the last call of a load function did

vars == <<pc, empCsv, emp, vendasCsv, vendas, vcols, vprev, prodDb, prodCsv, prod,
          arquivos, passo, iniciados, resultado, log, status,
          db, conexoes, entrada, carga>>

empVars == <<empCsv, emp>>
vendasVars == <<vendasCsv, vendas, vcols, vprev, prodDb>>
prodVars == <<prodCsv, prod>>
procVars == <<arquivos, passo, iniciados, resultado, log, status>>
dbVars == <<db, conexoes, entrada, carga>>
pipeVars == <<procVars, dbVars>>

\* a server without the databases of the pipeline
Tabelas == {"produtos", "vendas", "empregados"}
SemTabela == [existe |-> FALSE, linhas |-> <<>>]
SemBanco == [existe |-> FALSE, tabelas |-> [t \in Tabelas |-> SemTabela]]
SemEntrada == [tabela |-> "", colunas |-> {}, linhas |-> <<>>]
SemCarga ==
    [tipo |-> "none", erro |-> "", inserted_count |-> 0, warnings |-> 0, chamadas |-> 0,
     antes |-> <<>>]

\* a transform run on its own, outside pipeline.py
NoPipeline ==
    /\ arquivos = {} /\ passo = 0 /\ iniciados = <<>>
    /\ resultado = [tipo |-> "none", registros |-> 0]
    /\ log = <<>> /\ status = "running"
    /\ db = [b \in {"bus2", "comercial"} |-> SemBanco] /\ conexoes = <<>>
    /\ entrada = SemEntrada /\ carga = SemCarga

(***************************************************************************)
(* Bounds of the model.                                                    *)
(***************************************************************************)
MaxEmpK == 3      \* lines of empregados.csv when the key column is explored
MaxEmpA == 2      \* lines of empregados.csv when ages and titles are explored
MaxEmpG == 3      \* lines of empregados.csv when the job-title groups are explored
MaxEmpN == 2      \* lines of empregados.csv when names and blank titles are explored
MaxSales == 3     \* lines of vendas.csv when the dates are explored
MaxSalesU == 3    \* lines of vendas.csv when the unit values are explored
MaxSalesT == 2    \* lines of vendas.csv when the totals are explored
MaxSalesM == 3    \* lines of vendas.csv when the medians of dates are explored
MaxProd == 2      \* lines of produtos.csv
MaxRegistros == 2 \* records of the DataFrame a transform step returns to pipeline.py
MaxLinhas == 2    \* records of the DataFrame a load function is given
MaxCargas == 2    \* calls of a load function on one server

(***************************************************************************)
(* Cells.  Text is a sequence of one-character strings.                    *)
(***************************************************************************)
NaN == [k |-> "nan", n |-> 0, s |-> <<>>]
Num(x) == [k |-> "num", n |-> x, s |-> <<>>]
Str(t) == [k |-> "str", n |-> 0, s |-> t]

IsNull(c) == c.k = "nan"

Digits == <<"0", "1", "2", "3", "4", "5", "6", "7", "8", "9">>

IsDigit(ch) == \E d \in 1..10 : Digits[d] = ch

DigitVal(ch) == (CHOOSE d \in 1..10 : Digits[d] = ch) - 1

RECURSIVE ParseDigits(_)
ParseDigits(t) ==
    IF t = <<>> THEN 0
    ELSE 10 * ParseDigits(SubSeq(t, 1, Len(t) - 1)) + DigitVal(t[Len(t)])

\* text that a numeric parser accepts: one or more decimal digits
IsNumericText(t) == Len(t) > 0 /\ \A i \in 1..Len(t) : IsDigit(t[i])

RECURSIVE IntToText(_)
IntToText(x) ==
    IF x < 10 THEN <<Digits[x + 1]>>
    ELSE IntToText(x \div 10) \o <<Digits[(x % 10) + 1]>>

\* pd.to_numeric(..., errors='coerce') on one cell
ToNumeric(c) ==
    IF c.k = "num" THEN c
    ELSE IF c.k = "str" /\ IsNumericText(c.s) THEN Num(ParseDigits(c.s))
    ELSE NaN

\* pd.read_csv on one column: the empty field is NaN; a column whose other
\* fields are all numbers is a numeric column, any other column keeps text
ReadCsvCell(t, numericCol) ==
    IF t = <<>> THEN NaN
    ELSE IF numericCol THEN Num(ParseDigits(t))
    ELSE Str(t)

ColumnIsNumeric(lines, f) ==
    \A i \in 1..Len(lines) : lines[i][f] = <<>> \/ IsNumericText(lines[i][f])

\* df[col] == value, elementwise: NaN equals nothing, text never equals a number
CellEq(a, b) == a.k # "nan" /\ b.k # "nan" /\ a = b

\* DataFrame.duplicated on one key column: missing keys count as equal
SameKey(a, b) == a = b

(***************************************************************************)
(* Sequences.                                                              *)
(***************************************************************************)
RECURSIVE SeqsUpTo(_, _)
SeqsUpTo(S, n) ==
    IF n = 0 THEN {<<>>}
    ELSE LET shorter == SeqsUpTo(S, n - 1)
         IN  shorter \cup {Append(q, x) : q \in {r \in shorter : Len(r) = n - 1}, x \in S}

Max(a, b) == IF a >= b THEN a ELSE b

RECURSIVE SortedInsert(_, _)
SortedInsert(q, x) ==
    IF q = <<>> THEN <<x>>
    ELSE IF x <= q[1] THEN <<x>> \o q
    ELSE <<q[1]>> \o SortedInsert(Tail(q), x)

RECURSIVE SortInts(_)
SortInts(q) == IF q = <<>> THEN <<>> ELSE SortedInsert(SortInts(Tail(q)), q[1])

\* a variant that takes the lower of the two middle values
MedianTimes2_lower(q) ==
    LET s == SortInts(q)
        n == Len(s)
    IN  2 * s[(n + 1) \div 2]

\* twice the median of a non-empty sequence of integers, as pandas'
\* Series.median computes it: the middle value, or the mean of the two middle
MedianTimes2(q) ==
    LET s == SortInts(q)
        n == Len(s)
    IN  IF n % 2 = 1 THEN 2 * s[(n + 1) \div 2]
        ELSE s[n \div 2] + s[(n \div 2) + 1]

\* round(x) of Python on a float that is h/2: halves go to the even integer
RoundHalfEven(h) ==
    IF h % 2 = 0 THEN h \div 2
    ELSE IF ((h - 1) \div 2) % 2 = 0 THEN (h - 1) \div 2
    ELSE (h + 1) \div 2

(***************************************************************************)
(* et_empregados.py                                                        *)
(***************************************************************************)
\* 'Nao Informado' (the source writes it with a tilde)
NaoInformado ==
    Str(<<"N", "a", "o", " ", "I", "n", "f", "o", "r", "m", "a", "d", "o">>)
\* 'Funcionario ' (the source writes it with an accent)
FuncionarioPrefix ==
    <<"F", "u", "n", "c", "i", "o", "n", "a", "r", "i", "o", " ">>
MedianaCargo == "mediana_cargo"
MedianaGlobal == "mediana_global"
MinAge == 18
MaxAge == 70

\* load_empregados_csv: one row per line, labelled by its position
\* (the audit columns, which later stages create, are held at their defaults)
load_empregados_csv(lines) ==
    [i \in 1..Len(lines) |->
        [row   |-> i,
         id_empregado |-> ReadCsvCell(lines[i].id_empregado,
                                      ColumnIsNumeric(lines, "id_empregado")),
         nome  |-> ReadCsvCell(lines[i].nome, ColumnIsNumeric(lines, "nome")),
         cargo |-> ReadCsvCell(lines[i].cargo, ColumnIsNumeric(lines, "cargo")),
         idade |-> ReadCsvCell(lines[i].idade, ColumnIsNumeric(lines, "idade")),
         idade_imputada |-> FALSE,
         metodo_imputacao_idade |-> "",
         idade_ajustada |-> FALSE]]

\* df.drop_duplicates(subset=[key], keep='first')
RECURSIVE DropDuplicates(_, _)
DropDuplicates(df, key) ==
    IF df = <<>> THEN <<>>
    ELSE LET init == SubSeq(df, 1, Len(df) - 1)
             last == df[Len(df)]
             kept == DropDuplicates(init, key)
         IN  IF \E i \in 1..Len(init) : SameKey(init[i][key], last[key])
             THEN kept
             ELSE Append(kept, last)

\* a variant that keeps the last record of every key
remove_duplicates_last(df, key) ==
    LET rev(q) == [i \in 1..Len(q) |-> q[Len(q) + 1 - i]]
    IN  rev(DropDuplicates(rev(df), key))

remove_duplicates(df, key) == DropDuplicates(df, key)

\* the test of fill_missing_employee_ids for a blank key
IdIsBlank(c) == IsNull(c) \/ CellEq(c, Str(<<>>)) \/ CellEq(c, Str(<<" ">>))

RECURSIVE MaxNumeric(_)
MaxNumeric(q) ==
    IF q = <<>> THEN 0
    ELSE LET c == ToNumeric(q[1])
         IN  IF IsNull(c) THEN MaxNumeric(Tail(q)) ELSE Max(c.n, MaxNumeric(Tail(q)))

\* the largest existing key, 0 when there is none
MaxId(df) == MaxNumeric([i \in 1..Len(df) |->
                 IF IdIsBlank(df[i].id_empregado) THEN NaN ELSE df[i].id_empregado])

BlanksBefore(df, i) == Cardinality({j \in 1..(i - 1) : IdIsBlank(df[j].id_empregado)})

fill_missing_employee_ids(df) ==
    [i \in 1..Len(df) |->
        [df[i] EXCEPT !.id_empregado =
            IF IdIsBlank(@)
            THEN Num(MaxId(df) + 1 + BlanksBefore(df, i))
            ELSE ToNumeric(@)]]

\* str(row['id_empregado'])
IdText(c) == IF c.k = "num" THEN IntToText(c.n)
             ELSE IF c.k = "str" THEN c.s
             ELSE <<"<", "N", "A", ">">>

IsSpaces(t) == \A i \in 1..Len(t) : t[i] = " "

NameIsBlank(c) == IsNull(c) \/ (c.k = "str" /\ IsSpaces(c.s))

\* a variant that overwrites every name that differs from the placeholder
fix_missing_names_differs(df) ==
    [i \in 1..Len(df) |->
        [df[i] EXCEPT !.nome =
            IF @ # Str(FuncionarioPrefix \o IdText(df[i].id_empregado))
            THEN Str(FuncionarioPrefix \o IdText(df[i].id_empregado))
            ELSE @]]

fix_missing_names(df) ==
    [i \in 1..Len(df) |->
        [df[i] EXCEPT !.nome =
            IF NameIsBlank(@) THEN Str(FuncionarioPrefix \o IdText(df[i].id_empregado))
            ELSE @]]

\* a variant that also takes a title made of spaces for a missing one
fill_missing_cargos_spaces(df) ==
    [i \in 1..Len(df) |->
        [df[i] EXCEPT !.cargo =
            IF IsNull(@) \/ (@.k = "str" /\ IsSpaces(@.s)) THEN NaoInformado ELSE @]]

fill_missing_cargos(df) ==
    [i \in 1..Len(df) |->
        [df[i] EXCEPT !.cargo =
            IF IsNull(@) \/ CellEq(@, Str(<<>>)) THEN NaoInformado ELSE @]]

\* the ages selected by a boolean mask, in row order
RECURSIVE AgesWhere(_, _)
AgesWhere(df, mask) ==
    IF df = <<>> THEN <<>>
    ELSE LET rest == AgesWhere(Tail(df), [i \in 1..(Len(df) - 1) |-> mask[i + 1]])
         IN  IF mask[1] THEN <<df[1].idade.n>> \o rest ELSE rest

\* one turn of the loop of fill_missing_ages, for the row labelled r
FillAgeOf(df, r) ==
    LET me     == CHOOSE i \in 1..Len(df) : df[i].row = r
        id     == df[me].id_empregado
        cargo  == df[me].cargo
        \* a comparison with a missing key is NA, which selects nothing
        peers  == [i \in 1..Len(df) |->
                     /\ CellEq(df[i].cargo, cargo)
                     /\ ~IsNull(df[i].id_empregado) /\ ~IsNull(id)
                     /\ df[i].id_empregado # id
                     /\ ~IsNull(df[i].idade)]
        known  == [i \in 1..Len(df) |-> ~IsNull(df[i].idade)]
        idades_cargo   == AgesWhere(df, peers)
        idades_globais == AgesWhere(df, known)
        hit(i) == CellEq(df[i].id_empregado, id)
        set(v, m) == [i \in 1..Len(df) |->
                        IF hit(i)
                        THEN [df[i] EXCEPT !.idade = Num(v),
                                           !.idade_imputada = TRUE,
                                           !.metodo_imputacao_idade = m]
                        ELSE df[i]]
    IN  IF idades_cargo # <<>>
        THEN set(RoundHalfEven(MedianTimes2(idades_cargo)), MedianaCargo)
        ELSE IF idades_globais # <<>>
        THEN set(RoundHalfEven(MedianTimes2(idades_globais)), MedianaGlobal)
        ELSE df

RECURSIVE FillAges(_, _)
FillAges(df, todo) ==
    IF todo = <<>> THEN df ELSE FillAges(FillAgeOf(df, todo[1]), Tail(todo))

RECURSIVE BlankAgeRows(_)
BlankAgeRows(df) ==
    IF df = <<>> THEN <<>>
    ELSE IF IsNull(df[1].idade) THEN <<df[1].row>> \o BlankAgeRows(Tail(df))
    ELSE BlankAgeRows(Tail(df))

fill_missing_ages(df) ==
    LET numeric == [i \in 1..Len(df) |-> [df[i] EXCEPT !.idade = ToNumeric(@)]]
    IN  FillAges(numeric, BlankAgeRows(numeric))

\* the clamping loop of validate_age_range
ClampAges(df) ==
    [i \in 1..Len(df) |->
        IF IsNull(df[i].idade) THEN df[i]
        ELSE IF df[i].idade.n < MinAge
        THEN [df[i] EXCEPT !.idade = Num(MinAge), !.idade_ajustada = TRUE]
        ELSE IF df[i].idade.n > MaxAge
        THEN [df[i] EXCEPT !.idade = Num(MaxAge), !.idade_ajustada = TRUE]
        ELSE df[i]]

\* df['idade'].astype(int) raises on a missing age
AstypeIntRaises(df) == \E i \in 1..Len(df) : IsNull(df[i].idade)

(***************************************************************************)
(* The employee transform, extract_treat_empregados, stage by stage.       *)
(***************************************************************************)
KeyTexts == {<<>>, <<" ">>, <<"1">>, <<"0", "1">>, <<"2">>, <<"x">>}
NameTexts == {<<>>, <<"A", "n", "a">>}
CargoTexts == {<<>>, <<"D", "e", "v">>}
AgeTexts == {<<>>, <<"1", "0">>, <<"3", "0">>, <<"4", "1">>, <<"8", "0">>}

EmpLine(i, n, c, a) == [id_empregado |-> i, nome |-> n, cargo |-> c, idade |-> a]

\* files that exercise the key column
EmpLinesK == {EmpLine(i, <<"A", "n", "a">>, <<"D", "e", "v">>, a) :
                 i \in KeyTexts, a \in {<<>>, <<"3", "0">>}}

\* files that exercise names, titles and ages
EmpLinesA == {EmpLine(i, n, c, a) :
                 i \in {<<>>, <<"1">>, <<"2">>}, n \in NameTexts,
                 c \in CargoTexts, a \in AgeTexts}

e_load ==
    /\ pc = "e_load"
    /\ emp' = load_empregados_csv(empCsv)
    /\ pc' = "e_remove_duplicates"
    /\ UNCHANGED <<empCsv, vendasVars, prodVars, pipeVars>>

e_remove_duplicates ==
    /\ pc = "e_remove_duplicates"
    /\ emp' = remove_duplicates(emp, "id_empregado")
    /\ pc' = "e_fill_missing_employee_ids"
    /\ UNCHANGED <<empCsv, vendasVars, prodVars, pipeVars>>

e_fill_missing_employee_ids ==
    /\ pc = "e_fill_missing_employee_ids"
    /\ emp' = fill_missing_employee_ids(emp)
    /\ pc' = "e_fix_missing_names"
    /\ UNCHANGED <<empCsv, vendasVars, prodVars, pipeVars>>

e_fix_missing_names ==
    /\ pc = "e_fix_missing_names"
    /\ emp' = fix_missing_names(emp)
    /\ pc' = "e_fill_missing_cargos"
    /\ UNCHANGED <<empCsv, vendasVars, prodVars, pipeVars>>

e_fill_missing_cargos ==
    /\ pc = "e_fill_missing_cargos"
    /\ emp' = fill_missing_cargos(emp)
    /\ pc' = "e_fill_missing_ages"
    /\ UNCHANGED <<empCsv, vendasVars, prodVars, pipeVars>>

e_fill_missing_ages ==
    /\ pc = "e_fill_missing_ages"
    /\ emp' = fill_missing_ages(emp)
    /\ pc' = "e_validate_age_range"
    /\ UNCHANGED <<empCsv, vendasVars, prodVars, pipeVars>>

\* validate_age_range: the clamps are written in place, then the cast to int
\* either succeeds or raises, which ends extract_treat_empregados
e_validate_age_range ==
    /\ pc = "e_validate_age_range"
    /\ emp' = ClampAges(emp)
    /\ pc' = IF AstypeIntRaises(ClampAges(emp)) THEN "e_raised" ELSE "e_done"
    /\ UNCHANGED <<empCsv, vendasVars, prodVars, pipeVars>>

NextEmp ==
    \/ e_load
    \/ e_remove_duplicates
    \/ e_fill_missing_employee_ids
    \/ e_fix_missing_names
    \/ e_fill_missing_cargos
    \/ e_fill_missing_ages
    \/ e_validate_age_range

InitEmpK ==
    /\ pc = "e_load"
    /\ empCsv \in SeqsUpTo(EmpLinesK, MaxEmpK)
    /\ emp = <<>>
    /\ vendasCsv = <<>> /\ vendas = <<>> /\ vcols = {} /\ vprev = <<>> /\ prodDb = <<>>
    /\ prodCsv = <<>> /\ prod = <<>>
    /\ NoPipeline

InitEmpA ==
    /\ pc = "e_load"
    /\ empCsv \in SeqsUpTo(EmpLinesA, MaxEmpA)
    /\ emp = <<>>
    /\ vendasCsv = <<>> /\ vendas = <<>> /\ vcols = {} /\ vprev = <<>> /\ prodDb = <<>>
    /\ prodCsv = <<>> /\ prod = <<>>
    /\ NoPipeline

SpecEmpK == InitEmpK /\ [][NextEmp]_vars

SpecEmpA == InitEmpA /\ [][NextEmp]_vars

\* files that exercise the job-title groups: employees 1, 2, 3, ... with a
\* title and an age each
RECURSIVE EmpCsvUpTo(_)
EmpCsvUpTo(n) ==
    IF n = 0 THEN {<<>>}
    ELSE LET shorter == EmpCsvUpTo(n - 1)
         IN  shorter \cup
             {Append(q, EmpLine(IntToText(n), <<"A", "n", "a">>, c, a)) :
                 q \in {r \in shorter : Len(r) = n - 1},
                 c \in {<<"D", "e", "v">>, <<"O", "p", "s">>},
                 a \in {<<>>, <<"3", "0">>, <<"4", "1">>, <<"8", "0">>}}

InitEmpG ==
    /\ pc = "e_load"
    /\ empCsv \in EmpCsvUpTo(MaxEmpG)
    /\ emp = <<>>
    /\ vendasCsv = <<>> /\ vendas = <<>> /\ vcols = {} /\ vprev = <<>> /\ prodDb = <<>>
    /\ prodCsv = <<>> /\ prod = <<>>
    /\ NoPipeline

SpecEmpG == InitEmpG /\ [][NextEmp]_vars

\* files that exercise blank names and blank titles
EmpLinesN == {EmpLine(i, n, c, <<"3", "0">>) :
                 i \in {<<>>, <<"1">>, <<"x">>},
                 n \in {<<>>, <<" ">>, <<" ", " ">>, <<"A", "n", "a">>},
                 c \in {<<>>, <<" ">>, <<"D", "e", "v">>}}

InitEmpN ==
    /\ pc = "e_load"
    /\ empCsv \in SeqsUpTo(EmpLinesN, MaxEmpN)
    /\ emp = <<>>
    /\ vendasCsv = <<>> /\ vendas = <<>> /\ vcols = {} /\ vprev = <<>> /\ prodDb = <<>>
    /\ prodCsv = <<>> /\ prod = <<>>
    /\ NoPipeline

SpecEmpN == InitEmpN /\ [][NextEmp]_vars

(***************************************************************************)
(* Dates: the text DD/MM/YYYY, pandas' strptime and strftime, and the day  *)
(* number of the proleptic Gregorian calendar (date.toordinal).            *)
(***************************************************************************)
IsLeap(y) == (y % 4 = 0) /\ ((y % 100 # 0) \/ (y % 400 = 0))

DaysInMonth(m, y) ==
    IF m = 2 THEN (IF IsLeap(y) THEN 29 ELSE 28)
    ELSE IF m \in {4, 6, 9, 11} THEN 30 ELSE 31

RECURSIVE DaysBeforeMonth(_, _)
DaysBeforeMonth(m, y) ==
    IF m = 1 THEN 0 ELSE DaysBeforeMonth(m - 1, y) + DaysInMonth(m - 1, y)

DaysBeforeYear(y) ==
    365 * (y - 1) + ((y - 1) \div 4) - ((y - 1) \div 100) + ((y - 1) \div 400)

ToOrdinal(d, m, y) == DaysBeforeYear(y) + DaysBeforeMonth(m, y) + d

\* the fields of a text between the separators sep
RECURSIVE SplitOn(_, _)
SplitOn(t, sep) ==
    IF t = <<>> THEN <<<<>>>>
    ELSE LET init == SplitOn(SubSeq(t, 1, Len(t) - 1), sep)
             ch   == t[Len(t)]
         IN  IF ch = sep THEN Append(init, <<>>)
             ELSE [init EXCEPT ![Len(init)] = Append(@, ch)]

NoDate == 0

\* pd.to_datetime(text, format='%d/%m/%Y', errors='coerce') as a day number,
\* NoDate (NaT) when the text does not match the format or names no day
Strptime(t) ==
    LET f == SplitOn(t, "/")
    IN  IF /\ Len(f) = 3
           /\ IsNumericText(f[1]) /\ Len(f[1]) <= 2
           /\ IsNumericText(f[2]) /\ Len(f[2]) <= 2
           /\ IsNumericText(f[3]) /\ Len(f[3]) = 4
        THEN LET d == ParseDigits(f[1])
                 m == ParseDigits(f[2])
                 y == ParseDigits(f[3])
             IN  IF m >= 1 /\ m <= 12 /\ y >= 1 /\ d >= 1 /\ d <= DaysInMonth(m, y)
                 THEN ToOrdinal(d, m, y)
                 ELSE NoDate
        ELSE NoDate

ParseDateCell(c) == IF c.k = "str" THEN Strptime(c.s) ELSE NoDate

Pad(t, w) == IF Len(t) >= w THEN t ELSE [i \in 1..(w - Len(t)) |-> "0"] \o t

YearOfOrdinal(o) ==
    CHOOSE y \in ((o \div 366) - 1)..((o \div 365) + 1) :
        DaysBeforeYear(y) < o /\ o <= DaysBeforeYear(y + 1)

MonthOfOrdinal(o, y) ==
    CHOOSE m \in 1..12 :
        /\ DaysBeforeYear(y) + DaysBeforeMonth(m, y) < o
        /\ o <= DaysBeforeYear(y) + DaysBeforeMonth(m, y) + DaysInMonth(m, y)

\* Timestamp.strftime('%d/%m/%Y')
Strftime(o) ==
    LET y == YearOfOrdinal(o)
        m == MonthOfOrdinal(o, y)
        d == o - DaysBeforeYear(y) - DaysBeforeMonth(m, y)
    IN  Pad(IntToText(d), 2) \o <<"/">> \o Pad(IntToText(m), 2) \o <<"/">> \o Pad(IntToText(y), 4)

\* a variant that rounds the midpoint of the two middle days up to a day
MedianDate_upper(q) == Strftime((MedianTimes2(q) + 1) \div 2)

\* Series.median() of timestamps at midnight, then strftime: the mean of the
\* two middle days falls on a midnight or on a noon, and the text keeps its day
MedianDate(q) == Strftime(MedianTimes2(q) \div 2)

\* pd.Timestamp.now().strftime('%d/%m/%Y'), the day of the run
Today == Strftime(ToOrdinal(1, 11, 2026))

(***************************************************************************)
(* et_vendas.py: validate_and_fill_dates and its four passes.              *)
(***************************************************************************)
MedianaEmpregado == "mediana_empregado"
DataAtual == "data_atual"
FormatoInvalido == "formato_invalido"
MetodoNaN == "<nan>"      \* no method: the column is absent, or its cell is NaN
MetodoVazio == ""         \* the value the column metodo_imputacao is created with
AuditCols == {"data_imputada", "metodo_imputacao"}

\* the text of a decimal number with at most two decimals, in hundredths
IsDecimalText(t) ==
    LET f == SplitOn(t, ".")
    IN  \/ IsNumericText(t)
        \/ /\ Len(f) = 2 /\ IsNumericText(f[1]) /\ IsNumericText(f[2]) /\ Len(f[2]) <= 2

ParseDecimal(t) ==
    LET f == SplitOn(t, ".")
    IN  IF Len(f) = 1 THEN 100 * ParseDigits(f[1])
        ELSE 100 * ParseDigits(f[1])
             + (IF Len(f[2]) = 1 THEN 10 * ParseDigits(f[2]) ELSE ParseDigits(f[2]))

\* pd.read_csv on a cell of a money column: the number it reads as, which is
\* also what pd.to_numeric later makes of it; text that is no number is kept
ReadCsvDecimal(t) ==
    IF t = <<>> THEN NaN
    ELSE IF IsDecimalText(t) THEN Num(ParseDecimal(t))
    ELSE Str(t)

\* load_vendas_csv: one row per line; the audit cells read FALSE and NaN
\* until a pass creates the columns (vcols tells which exist)
load_vendas_csv(lines) ==
    [i \in 1..Len(lines) |->
        [row |-> i,
         id_venda |-> ReadCsvCell(lines[i].id_venda, ColumnIsNumeric(lines, "id_venda")),
         id_empregado |-> ReadCsvCell(lines[i].id_empregado,
                                      ColumnIsNumeric(lines, "id_empregado")),
         id_produto |-> ReadCsvCell(lines[i].id_produto,
                                    ColumnIsNumeric(lines, "id_produto")),
         data |-> ReadCsvCell(lines[i].data, ColumnIsNumeric(lines, "data")),
         quantidade |-> ReadCsvCell(lines[i].quantidade,
                                    ColumnIsNumeric(lines, "quantidade")),
         valor_unitario |-> ReadCsvDecimal(lines[i].valor_unitario),
         valor_total |-> ReadCsvDecimal(lines[i].valor_total),
         data_imputada |-> FALSE,
         metodo_imputacao |-> MetodoNaN]]

\* df['data'].isnull() | (df['data'] == '')
DateIsMissing(c) == IsNull(c) \/ CellEq(c, Str(<<>>))

AnyMissingDate(df) == \E i \in 1..Len(df) : DateIsMissing(df[i].data)

\* the parsed dates of the rows a mask selects, NaT dropped, in row order
RECURSIVE DatesWhere(_, _)
DatesWhere(df, mask) ==
    IF df = <<>> THEN <<>>
    ELSE LET rest == DatesWhere(Tail(df), [i \in 1..(Len(df) - 1) |-> mask[i + 1]])
             o    == ParseDateCell(df[1].data)
         IN  IF mask[1] /\ o # NoDate THEN <<o>> \o rest ELSE rest

\* a variant that forgets the filter on the employee
DatasEmpregado_any(df, id) ==
    DatesWhere(df, [i \in 1..Len(df) |-> ~DateIsMissing(df[i].data)])

\* the dated sales of one employee (vendas_com_data is taken before the loop)
DatasEmpregado(df, id) ==
    DatesWhere(df, [i \in 1..Len(df) |->
        ~DateIsMissing(df[i].data) /\ CellEq(df[i].id_empregado, id)])

FilledByEmployee(df, i) ==
    DateIsMissing(df[i].data) /\ DatasEmpregado(df, df[i].id_empregado) # <<>>

_fill_missing_dates_by_employee(df) ==
    [i \in 1..Len(df) |->
        IF FilledByEmployee(df, i)
        THEN [df[i] EXCEPT !.data = Str(MedianDate(DatasEmpregado(df, df[i].id_empregado))),
                           !.data_imputada = TRUE,
                           !.metodo_imputacao = MedianaEmpregado]
        ELSE df[i]]

\* the audit columns after a pass: every pass creates both when it fills a row
ColsAfter(cols, filled) == IF filled THEN AuditCols ELSE cols

\* df['metodo_imputacao'] = '' when the column is still absent
WithMetodoCol(df, cols) ==
    IF "metodo_imputacao" \in cols THEN df
    ELSE [i \in 1..Len(df) |-> [df[i] EXCEPT !.metodo_imputacao = MetodoVazio]]

DatasValidas(df) ==
    DatesWhere(df, [i \in 1..Len(df) |-> ~DateIsMissing(df[i].data)])

\* a variant that wants two valid dates before it takes a median
FillsGlobal_two(df) == AnyMissingDate(df) /\ Len(DatasValidas(df)) >= 2

FillsGlobal(df) == AnyMissingDate(df) /\ DatasValidas(df) # <<>>

\* a variant whose mask also takes the rows an earlier tier has filled
_fill_remaining_dates_with_pattern_again(df, cols) ==
    IF FillsGlobal(df)
    THEN LET base == WithMetodoCol(df, cols)
         IN  [i \in 1..Len(df) |->
                IF DateIsMissing(df[i].data) \/ df[i].data_imputada
                THEN [base[i] EXCEPT !.data = Str(MedianDate(DatasValidas(df))),
                                     !.data_imputada = TRUE,
                                     !.metodo_imputacao = MedianaGlobal]
                ELSE base[i]]
    ELSE df

_fill_remaining_dates_with_pattern(df, cols) ==
    IF FillsGlobal(df)
    THEN LET base == WithMetodoCol(df, cols)
         IN  [i \in 1..Len(df) |->
                IF DateIsMissing(df[i].data)
                THEN [base[i] EXCEPT !.data = Str(MedianDate(DatasValidas(df))),
                                     !.data_imputada = TRUE,
                                     !.metodo_imputacao = MedianaGlobal]
                ELSE base[i]]
    ELSE df

_handle_extreme_missing_dates(df, cols) ==
    IF AnyMissingDate(df)
    THEN LET base == WithMetodoCol(df, cols)
         IN  [i \in 1..Len(df) |->
                IF DateIsMissing(df[i].data)
                THEN [base[i] EXCEPT !.data = Str(Today),
                                     !.data_imputada = TRUE,
                                     !.metodo_imputacao = DataAtual]
                ELSE base[i]]
    ELSE df

DateIsInvalid(c) == ParseDateCell(c) = NoDate

AnyInvalidDate(df) == \E i \in 1..Len(df) : DateIsInvalid(df[i].data)

\* a variant that flags the invalid rows and leaves their text in place
_parse_and_validate_date_format_flag_only(df, cols) ==
    IF AnyInvalidDate(df)
    THEN LET base == WithMetodoCol(df, cols)
         IN  [i \in 1..Len(df) |->
                IF DateIsInvalid(df[i].data)
                THEN [base[i] EXCEPT !.data_imputada = TRUE,
                                     !.metodo_imputacao = FormatoInvalido]
                ELSE base[i]]
    ELSE df

\* a variant that tags the invalid rows with the method of the fallback tier
_parse_and_validate_date_format_tier3_tag(df, cols) ==
    IF AnyInvalidDate(df)
    THEN LET base == WithMetodoCol(df, cols)
         IN  [i \in 1..Len(df) |->
                IF DateIsInvalid(df[i].data)
                THEN [base[i] EXCEPT !.data = Str(Today),
                                     !.data_imputada = TRUE,
                                     !.metodo_imputacao = DataAtual]
                ELSE base[i]]
    ELSE df

_parse_and_validate_date_format(df, cols) ==
    IF AnyInvalidDate(df)
    THEN LET base == WithMetodoCol(df, cols)
         IN  [i \in 1..Len(df) |->
                IF DateIsInvalid(df[i].data)
                THEN [base[i] EXCEPT !.data = Str(Today),
                                     !.data_imputada = TRUE,
                                     !.metodo_imputacao = FormatoInvalido]
                ELSE base[i]]
    ELSE df

(***************************************************************************)
(* et_vendas.py: fill_missing_unit_values and calculate_total_values.      *)
(* A float column of money is held in hundredths.                          *)
(***************************************************************************)
\* round(x, 2) of a median given as twice its value in hundredths
Round2(h) == RoundHalfEven(h)

\* a variant that joins with how='inner': a sale without a product is dropped
RECURSIVE MergeLeft_inner(_, _)
MergeLeft_inner(df, prods) ==
    IF df = <<>> THEN <<>>
    ELSE LET init == MergeLeft_inner(SubSeq(df, 1, Len(df) - 1), prods)
             sale == df[Len(df)]
             hits == SelectSeq(prods, LAMBDA p : CellEq(p.id_produto, sale.id_produto))
         IN  init \o [j \in 1..Len(hits) |-> [s |-> sale, categoria |-> hits[j].categoria]]

\* df_vendas.merge(df_produtos[['id_produto', 'categoria']], on='id_produto',
\* how='left'): one row per matching product, one row when none matches
RECURSIVE MergeLeft(_, _)
MergeLeft(df, prods) ==
    IF df = <<>> THEN <<>>
    ELSE LET init == MergeLeft(SubSeq(df, 1, Len(df) - 1), prods)
             sale == df[Len(df)]
             hits == SelectSeq(prods, LAMBDA p : CellEq(p.id_produto, sale.id_produto))
         IN  IF hits = <<>> THEN Append(init, [s |-> sale, categoria |-> NaN])
             ELSE init \o [j \in 1..Len(hits) |->
                              [s |-> sale, categoria |-> hits[j].categoria]]

RECURSIVE UnitValuesWhere(_, _)
UnitValuesWhere(m, mask) ==
    IF m = <<>> THEN <<>>
    ELSE LET rest == UnitValuesWhere(Tail(m), [i \in 1..(Len(m) - 1) |-> mask[i + 1]])
         IN  IF mask[1] /\ ~IsNull(m[1].s.valor_unitario)
             THEN <<m[1].s.valor_unitario.n>> \o rest ELSE rest

ValoresValidos(m, categoria) ==
    UnitValuesWhere(m, [i \in 1..Len(m) |-> CellEq(m[i].categoria, categoria)])

\* the loop over the categories: a row without a value takes the median of
\* the values of its category, when the category has any
FillByCategory(m) ==
    [i \in 1..Len(m) |->
        IF /\ IsNull(m[i].s.valor_unitario) /\ ~IsNull(m[i].categoria)
           /\ ValoresValidos(m, m[i].categoria) # <<>>
        THEN [m[i] EXCEPT !.s.valor_unitario =
                  Num(Round2(MedianTimes2(ValoresValidos(m, m[i].categoria))))]
        ELSE m[i]]

\* the rows without a category take the median of every value of the table
FillNoCategory(m) ==
    LET todos == UnitValuesWhere(m, [i \in 1..Len(m) |-> TRUE])
    IN  [i \in 1..Len(m) |->
            IF IsNull(m[i].s.valor_unitario) /\ IsNull(m[i].categoria) /\ todos # <<>>
            THEN [m[i] EXCEPT !.s.valor_unitario = Num(Round2(MedianTimes2(todos)))]
            ELSE m[i]]

fill_missing_unit_values(df, prods) ==
    LET numeric == [i \in 1..Len(df) |-> [df[i] EXCEPT !.valor_unitario = ToNumeric(@)]]
        merged  == MergeLeft(numeric, prods)
        filled  == FillNoCategory(FillByCategory(merged))
    IN  [i \in 1..Len(filled) |-> filled[i].s]

\* merge refuses a text key column against the integer keys of the products
MergeRaises(df) == \E i \in 1..Len(df) : df[i].id_produto.k = "str"

\* a variant that computes the total of every row, whether it had one or not
calculate_total_values_all(df) ==
    [i \in 1..Len(df) |->
        [df[i] EXCEPT !.valor_total =
            IF IsNull(ToNumeric(df[i].quantidade)) \/ IsNull(df[i].valor_unitario)
            THEN NaN
            ELSE Num(ToNumeric(df[i].quantidade).n * df[i].valor_unitario.n)]]

calculate_total_values(df) ==
    [i \in 1..Len(df) |->
        LET total == ToNumeric(df[i].valor_total)
        IN  [df[i] EXCEPT !.valor_total =
                IF ~IsNull(total) THEN total
                ELSE IF IsNull(ToNumeric(df[i].quantidade)) \/ IsNull(df[i].valor_unitario)
                THEN NaN
                ELSE Num(ToNumeric(df[i].quantidade).n * df[i].valor_unitario.n)]]

\* quantidade.astype(float) raises on text that is no number
TotalRaises(df) ==
    \E i \in 1..Len(df) :
        /\ IsNull(ToNumeric(df[i].valor_total))
        /\ df[i].quantidade.k = "str" /\ IsNull(ToNumeric(df[i].quantidade))

(***************************************************************************)
(* The sales transform, extract_treat_vendas, stage by stage.              *)
(***************************************************************************)
D0101 == <<"0", "1", "/", "0", "1", "/", "2", "0", "2", "4">>
D0301 == <<"0", "3", "/", "0", "1", "/", "2", "0", "2", "4">>
D0103 == <<"0", "1", "/", "0", "3", "/", "2", "0", "2", "4">>
D3102 == <<"3", "1", "/", "0", "2", "/", "2", "0", "2", "4">>

DateTexts == {<<>>, D0101, D0301, D0103, D3102}
SaleEmpTexts == {<<>>, <<"7">>, <<"8">>}

VendaLine(v, e, p, d, q, u, t) ==
    [id_venda |-> v, id_empregado |-> e, id_produto |-> p, data |-> d,
     quantidade |-> q, valor_unitario |-> u, valor_total |-> t]

\* files that exercise the date column: sales 1, 2, 3, ... of product 1
RECURSIVE VendasCsvUpTo(_)
VendasCsvUpTo(n) ==
    IF n = 0 THEN {<<>>}
    ELSE LET shorter == VendasCsvUpTo(n - 1)
         IN  shorter \cup
             {Append(q, VendaLine(IntToText(n), e, <<"1">>, d, <<"2">>, <<"1", "0">>, <<>>)) :
                 q \in {r \in shorter : Len(r) = n - 1}, e \in SaleEmpTexts, d \in DateTexts}

VendasCsvD == VendasCsvUpTo(MaxSales)

\* the table produtos that fetch_produtos_from_db reads from the database
ProdutosDb == <<[id_produto |-> Num(1), categoria |-> Str(<<"A">>)],
                [id_produto |-> Num(2), categoria |-> Str(<<"B">>)]>>

v_load ==
    /\ pc = "v_load"
    /\ vendas' = load_vendas_csv(vendasCsv)
    /\ pc' = "v_remove_duplicates"
    /\ UNCHANGED <<empVars, prodVars, vendasCsv, prodDb, vcols, vprev, pipeVars>>

v_remove_duplicates ==
    /\ pc = "v_remove_duplicates"
    /\ vendas' = remove_duplicates(vendas, "id_venda")
    /\ pc' = "v_validate_and_fill_dates"
    /\ UNCHANGED <<empVars, prodVars, vendasCsv, prodDb, vcols, vprev, pipeVars>>

\* validate_and_fill_dates, lines 154-172: the three tiers run only when some
\* date is missing
v_validate_and_fill_dates ==
    /\ pc = "v_validate_and_fill_dates"
    /\ vprev' = vendas
    /\ pc' = IF AnyMissingDate(vendas) THEN "v_fill_missing_dates_by_employee"
             ELSE "v_parse_and_validate_date_format"
    /\ UNCHANGED <<empVars, prodVars, vendasCsv, prodDb, vendas, vcols, pipeVars>>

v_fill_missing_dates_by_employee ==
    /\ pc = "v_fill_missing_dates_by_employee"
    /\ vendas' = _fill_missing_dates_by_employee(vendas)
    /\ vcols' = ColsAfter(vcols, \E i \in 1..Len(vendas) : FilledByEmployee(vendas, i))
    /\ pc' = "v_fill_remaining_dates_with_pattern"
    /\ UNCHANGED <<empVars, prodVars, vendasCsv, prodDb, vprev, pipeVars>>

v_fill_remaining_dates_with_pattern ==
    /\ pc = "v_fill_remaining_dates_with_pattern"
    /\ vendas' = _fill_remaining_dates_with_pattern(vendas, vcols)
    /\ vcols' = ColsAfter(vcols, FillsGlobal(vendas))
    /\ pc' = "v_handle_extreme_missing_dates"
    /\ UNCHANGED <<empVars, prodVars, vendasCsv, prodDb, vprev, pipeVars>>

v_handle_extreme_missing_dates ==
    /\ pc = "v_handle_extreme_missing_dates"
    /\ vendas' = _handle_extreme_missing_dates(vendas, vcols)
    /\ vcols' = ColsAfter(vcols, AnyMissingDate(vendas))
    /\ pc' = "v_parse_and_validate_date_format"
    /\ UNCHANGED <<empVars, prodVars, vendasCsv, prodDb, vprev, pipeVars>>

v_parse_and_validate_date_format ==
    /\ pc = "v_parse_and_validate_date_format"
    /\ vendas' = _parse_and_validate_date_format(vendas, vcols)
    /\ vcols' = ColsAfter(vcols, AnyInvalidDate(vendas))
    /\ pc' = "v_fill_missing_unit_values"
    /\ UNCHANGED <<empVars, prodVars, vendasCsv, prodDb, vprev, pipeVars>>

v_fill_missing_unit_values ==
    /\ pc = "v_fill_missing_unit_values"
    /\ IF MergeRaises(vendas)
       THEN vendas' = [i \in 1..Len(vendas) |->
                          [vendas[i] EXCEPT !.valor_unitario = ToNumeric(@)]]
            /\ pc' = "v_raised"
       ELSE vendas' = fill_missing_unit_values(vendas, prodDb)
            /\ pc' = "v_calculate_total_values"
    /\ UNCHANGED <<empVars, prodVars, vendasCsv, prodDb, vcols, vprev, pipeVars>>

v_calculate_total_values ==
    /\ pc = "v_calculate_total_values"
    /\ IF TotalRaises(vendas)
       THEN vendas' = [i \in 1..Len(vendas) |->
                          [vendas[i] EXCEPT !.valor_total = ToNumeric(@)]]
            /\ pc' = "v_raised"
       ELSE vendas' = calculate_total_values(vendas)
            /\ pc' = "v_done"
    /\ UNCHANGED <<empVars, prodVars, vendasCsv, prodDb, vcols, vprev, pipeVars>>

NextVendas ==
    \/ v_load
    \/ v_remove_duplicates
    \/ v_validate_and_fill_dates
    \/ v_fill_missing_dates_by_employee
    \/ v_fill_remaining_dates_with_pattern
    \/ v_handle_extreme_missing_dates
    \/ v_parse_and_validate_date_format
    \/ v_fill_missing_unit_values
    \/ v_calculate_total_values

InitVendasD ==
    /\ pc = "v_load"
    /\ vendasCsv \in VendasCsvD
    /\ prodDb = ProdutosDb
    /\ vendas = <<>> /\ vcols = {} /\ vprev = <<>>
    /\ empCsv = <<>> /\ emp = <<>>
    /\ prodCsv = <<>> /\ prod = <<>>
    /\ NoPipeline

SpecVendasD == InitVendasD /\ [][NextVendas]_vars

\* files that exercise the unit values: sales 1, 2, 3, ... of products 1 and
\* 2 and of a product the table produtos does not hold; the first sale has
\* no date
RECURSIVE VendasCsvUUpTo(_)
VendasCsvUUpTo(n) ==
    IF n = 0 THEN {<<>>}
    ELSE LET shorter == VendasCsvUUpTo(n - 1)
         IN  shorter \cup
             {Append(q, VendaLine(IntToText(n), <<"7">>, p,
                                  IF n = 1 THEN <<>> ELSE D0101, <<"2">>, u, <<>>)) :
                 q \in {r \in shorter : Len(r) = n - 1},
                 p \in {<<"1">>, <<"2">>, <<"9">>},
                 u \in {<<>>, <<"1", "0">>, <<"2", "0", ".", "5">>}}

InitVendasU ==
    /\ pc = "v_load"
    /\ vendasCsv \in VendasCsvUUpTo(MaxSalesU)
    /\ prodDb = ProdutosDb
    /\ vendas = <<>> /\ vcols = {} /\ vprev = <<>>
    /\ empCsv = <<>> /\ emp = <<>>
    /\ prodCsv = <<>> /\ prod = <<>>
    /\ NoPipeline

\* files that exercise the totals: sales 1, 2, ... of product 1; the first
\* sale has no date
RECURSIVE VendasCsvTUpTo(_)
VendasCsvTUpTo(n) ==
    IF n = 0 THEN {<<>>}
    ELSE LET shorter == VendasCsvTUpTo(n - 1)
         IN  shorter \cup
             {Append(q, VendaLine(IntToText(n), <<"7">>, <<"1">>,
                                  IF n = 1 THEN <<>> ELSE D0101, qt, u, t)) :
                 q \in {r \in shorter : Len(r) = n - 1},
                 qt \in {<<>>, <<"2">>, <<"x">>},
                 u \in {<<>>, <<"2", "0", ".", "5">>},
                 t \in {<<>>, <<"5">>, <<"x">>}}

InitVendasT ==
    /\ pc = "v_load"
    /\ vendasCsv \in VendasCsvTUpTo(MaxSalesT)
    /\ prodDb = ProdutosDb
    /\ vendas = <<>> /\ vcols = {} /\ vprev = <<>>
    /\ empCsv = <<>> /\ emp = <<>>
    /\ prodCsv = <<>> /\ prod = <<>>
    /\ NoPipeline

SpecVendasT == InitVendasT /\ [][NextVendas]_vars

D0401 == <<"0", "4", "/", "0", "1", "/", "2", "0", "2", "4">>

\* files that exercise the median of dates: sales 1, 2, 3, ... of product 1
\* whose dates, when there are two, are an odd number of days apart
RECURSIVE VendasCsvMUpTo(_)
VendasCsvMUpTo(n) ==
    IF n = 0 THEN {<<>>}
    ELSE LET shorter == VendasCsvMUpTo(n - 1)
         IN  shorter \cup
             {Append(q, VendaLine(IntToText(n), e, <<"1">>, d, <<"2">>, <<"1", "0">>, <<>>)) :
                 q \in {r \in shorter : Len(r) = n - 1},
                 e \in {<<"7">>, <<"8">>}, d \in {<<>>, D0101, D0401}}

InitVendasM ==
    /\ pc = "v_load"
    /\ vendasCsv \in VendasCsvMUpTo(MaxSalesM)
    /\ prodDb = ProdutosDb
    /\ vendas = <<>> /\ vcols = {} /\ vprev = <<>>
    /\ empCsv = <<>> /\ emp = <<>>
    /\ prodCsv = <<>> /\ prod = <<>>
    /\ NoPipeline

SpecVendasM == InitVendasM /\ [][NextVendas]_vars

(***************************************************************************)
(* et_produtos.py                                                          *)
(***************************************************************************)
Desconhecida ==
    Str(<<"D", "e", "s", "c", "o", "n", "h", "e", "c", "i", "d", "a">>)
ProdutoPrefix == <<"P", "r", "o", "d", "u", "t", "o", " ">>

load_produtos_csv(lines) ==
    [i \in 1..Len(lines) |->
        [row |-> i,
         id_produto |-> ReadCsvCell(lines[i].id_produto,
                                    ColumnIsNumeric(lines, "id_produto")),
         nome |-> ReadCsvCell(lines[i].nome, ColumnIsNumeric(lines, "nome")),
         preco |-> ReadCsvDecimal(lines[i].preco),
         categoria |-> ReadCsvCell(lines[i].categoria,
                                   ColumnIsNumeric(lines, "categoria"))]]

\* a numeric column with a missing value is a column of floats
ColumnIsFloat(df, f) ==
    /\ \E i \in 1..Len(df) : IsNull(df[i][f])
    /\ \A i \in 1..Len(df) : df[i][f].k # "str"

\* str(value) of a cell read from a row of iterrows
PyStr(c, float) ==
    IF c.k = "num" THEN (IF float THEN IntToText(c.n) \o <<".", "0">> ELSE IntToText(c.n))
    ELSE IF c.k = "str" THEN c.s
    ELSE <<"n", "a", "n">>

NomeEsperado(df, i) ==
    ProdutoPrefix \o PyStr(df[i].id_produto, ColumnIsFloat(df, "id_produto"))

\* a variant that puts the prefix before the name it finds
fix_product_names_prefix(df) ==
    [i \in 1..Len(df) |->
        [df[i] EXCEPT !.nome =
            IF PyStr(@, ColumnIsFloat(df, "nome")) # NomeEsperado(df, i)
            THEN Str(ProdutoPrefix \o PyStr(@, ColumnIsFloat(df, "nome")))
            ELSE @]]

fix_product_names(df) ==
    [i \in 1..Len(df) |->
        [df[i] EXCEPT !.nome =
            IF PyStr(@, ColumnIsFloat(df, "nome")) # NomeEsperado(df, i)
            THEN Str(NomeEsperado(df, i))
            ELSE @]]

\* a variant that drops the rows without a category instead of filling them
fill_missing_categories_dropna(df) ==
    SelectSeq(df, LAMBDA r : ~(IsNull(r.categoria) \/ CellEq(r.categoria, Str(<<>>))))

fill_missing_categories(df) ==
    [i \in 1..Len(df) |->
        [df[i] EXCEPT !.categoria =
            IF IsNull(@) \/ CellEq(@, Str(<<>>)) THEN Desconhecida ELSE @]]

\* df[col] != value, elementwise, on a column without NA: NaN differs from all
CellNe(a, b) == ~CellEq(a, b)

RECURSIVE PricesWhere(_, _)
PricesWhere(df, mask) ==
    IF df = <<>> THEN <<>>
    ELSE LET rest == PricesWhere(Tail(df), [i \in 1..(Len(df) - 1) |-> mask[i + 1]])
         IN  IF mask[1] THEN <<df[1].preco.n>> \o rest ELSE rest

\* a variant that falls back to the median of every price of the table
FillPriceOf_global(df, r) ==
    LET me == CHOOSE i \in 1..Len(df) : df[i].row = r
        id == df[me].id_produto
        precos_categoria ==
            PricesWhere(df, [i \in 1..Len(df) |->
                /\ CellEq(df[i].categoria, df[me].categoria)
                /\ CellNe(df[i].id_produto, id)
                /\ ~IsNull(df[i].preco)])
        precos == PricesWhere(df, [i \in 1..Len(df) |-> ~IsNull(df[i].preco)])
        set(v) == [i \in 1..Len(df) |->
                      IF CellEq(df[i].id_produto, id)
                      THEN [df[i] EXCEPT !.preco = Num(Round2(MedianTimes2(v)))]
                      ELSE df[i]]
    IN  IF precos_categoria # <<>> THEN set(precos_categoria)
        ELSE IF precos # <<>> THEN set(precos)
        ELSE df

\* one turn of the loop of fill_missing_prices, for the row labelled r
FillPriceOf(df, r) ==
    LET me == CHOOSE i \in 1..Len(df) : df[i].row = r
        id == df[me].id_produto
        precos_categoria ==
            PricesWhere(df, [i \in 1..Len(df) |->
                /\ CellEq(df[i].categoria, df[me].categoria)
                /\ CellNe(df[i].id_produto, id)
                /\ ~IsNull(df[i].preco)])
    IN  IF precos_categoria # <<>>
        THEN [i \in 1..Len(df) |->
                 IF CellEq(df[i].id_produto, id)
                 THEN [df[i] EXCEPT !.preco = Num(Round2(MedianTimes2(precos_categoria)))]
                 ELSE df[i]]
        ELSE df

RECURSIVE FillPrices(_, _)
FillPrices(df, todo) ==
    IF todo = <<>> THEN df ELSE FillPrices(FillPriceOf(df, todo[1]), Tail(todo))

RECURSIVE BlankPriceRows(_)
BlankPriceRows(df) ==
    IF df = <<>> THEN <<>>
    ELSE IF IsNull(df[1].preco) THEN <<df[1].row>> \o BlankPriceRows(Tail(df))
    ELSE BlankPriceRows(Tail(df))

fill_missing_prices(df) ==
    LET numeric == [i \in 1..Len(df) |-> [df[i] EXCEPT !.preco = ToNumeric(@)]]
    IN  FillPrices(numeric, BlankPriceRows(numeric))

(***************************************************************************)
(* The product transform, extract_treat_produtos, stage by stage.          *)
(***************************************************************************)
ProdLine(i, n, p, c) == [id_produto |-> i, nome |-> n, preco |-> p, categoria |-> c]

ProdLines == {ProdLine(i, n, p, c) :
                 i \in {<<>>, <<"1">>, <<"2">>},
                 n \in {<<"P", "r", "o", "d", "u", "t", "o", " ", "1">>, <<"X">>},
                 p \in {<<>>, <<"1", "0">>, <<"2", "0", ".", "5">>},
                 c \in {<<>>, <<"A">>}}

p_load ==
    /\ pc = "p_load"
    /\ prod' = load_produtos_csv(prodCsv)
    /\ pc' = "p_remove_duplicates"
    /\ UNCHANGED <<empVars, vendasVars, prodCsv, pipeVars>>

p_remove_duplicates ==
    /\ pc = "p_remove_duplicates"
    /\ prod' = remove_duplicates(prod, "id_produto")
    /\ pc' = "p_fix_product_names"
    /\ UNCHANGED <<empVars, vendasVars, prodCsv, pipeVars>>

p_fix_product_names ==
    /\ pc = "p_fix_product_names"
    /\ prod' = fix_product_names(prod)
    /\ pc' = "p_fill_missing_categories"
    /\ UNCHANGED <<empVars, vendasVars, prodCsv, pipeVars>>

p_fill_missing_categories ==
    /\ pc = "p_fill_missing_categories"
    /\ prod' = fill_missing_categories(prod)
    /\ pc' = "p_fill_missing_prices"
    /\ UNCHANGED <<empVars, vendasVars, prodCsv, pipeVars>>

p_fill_missing_prices ==
    /\ pc = "p_fill_missing_prices"
    /\ prod' = fill_missing_prices(prod)
    /\ pc' = "p_done"
    /\ UNCHANGED <<empVars, vendasVars, prodCsv, pipeVars>>

NextProd ==
    \/ p_load
    \/ p_remove_duplicates
    \/ p_fix_product_names
    \/ p_fill_missing_categories
    \/ p_fill_missing_prices

InitProd ==
    /\ pc = "p_load"
    /\ prodCsv \in SeqsUpTo(ProdLines, MaxProd)
    /\ prod = <<>>
    /\ empCsv = <<>> /\ emp = <<>>
    /\ vendasCsv = <<>> /\ vendas = <<>> /\ vcols = {} /\ vprev = <<>> /\ prodDb = <<>>
    /\ NoPipeline

SpecProd == InitProd /\ [][NextProd]_vars

(***************************************************************************)
(* The two transforms that impute money: prices and unit values.           *)
(***************************************************************************)
InitMoney == InitProd \/ InitVendasU

NextMoney == NextProd \/ NextVendas

SpecMoney == InitMoney /\ [][NextMoney]_vars

(***************************************************************************)
(* The two transforms that fill a categorical field with a sentinel.       *)
(***************************************************************************)
InitCategorical == InitProd \/ InitEmpN

NextCategorical == NextProd \/ NextEmp

SpecCategorical == InitCategorical /\ [][NextCategorical]_vars

(***************************************************************************)
(* load-data: l_produtos.py, l_vendas.py and l_empregados.py are one text  *)
(* but for the table, its columns and the conversions of a row; t is the   *)
(* table.  The rows of a table are held in the order they were inserted.   *)
(***************************************************************************)
\* connection_params: the database each module connects to
BancoDeCarga == "bus2"               \* l_*.py and save_data_parquet.py
BancoDeConsulta == "comercial"       \* et_vendas.py and save_data_pdf_report.py
BancoDoSuperusuario == "postgres"    \* create_user_database.py

required_columns(t) ==
    IF t = "produtos" THEN {"id_produto", "nome", "preco", "categoria"}
    ELSE IF t = "vendas"
    THEN {"id_venda", "data", "id_produto", "id_empregado", "quantidade",
          "valor_unitario", "valor_total"}
    ELSE {"id_empregado", "nome", "cargo", "idade"}

\* the PRIMARY KEY of CREATE TABLE
ChaveDe(t) ==
    IF t = "produtos" THEN "id_produto"
    ELSE IF t = "vendas" THEN "id_venda" ELSE "id_empregado"

\* validate_dataframe: the required columns the DataFrame does not have
missing_columns(colunas, required) == required \ colunas

\* int(x) raises on NaN, on <NA> and on text that is no number
IntRaises(c) == IsNull(ToNumeric(c))

\* int(x) if pd.notnull(x) and x != '' else None
IntOrNoneRaises(c) == c.k = "str" /\ c.s # <<>> /\ ~IsNumericText(c.s)

\* float(x) if pd.notnull(x) and x != '' else None
FloatOrNoneRaises(c) == c.k = "str" /\ c.s # <<>> /\ ~IsDecimalText(c.s)

\* data DATE NOT NULL: the server refuses a null and a text that is no date
\* (for a day above 12 it is the DateStyle of the server that decides; the
\* tables of the model hold 01/01/2024)
DateRefused(c) == c.k # "str" \/ Strptime(c.s) = NoDate

\* the row makes cur.execute, or the conversion of its parameters, raise
RowRaises(t, r) ==
    IF t = "produtos"
    THEN IntRaises(r.id_produto) \/ FloatOrNoneRaises(r.preco)
    ELSE IF t = "vendas"
    THEN \/ IntRaises(r.id_venda) \/ DateRefused(r.data) \/ IntRaises(r.id_produto)
         \/ IntOrNoneRaises(r.id_empregado) \/ IntRaises(r.quantidade)
         \/ FloatOrNoneRaises(r.valor_unitario) \/ FloatOrNoneRaises(r.valor_total)
    ELSE IntRaises(r.id_empregado) \/ IntOrNoneRaises(r.idade)

\* the parameters of the INSERT: the key as an integer, the rest as given
Parametros(t, r) == [r EXCEPT ![ChaveDe(t)] = ToNumeric(@)]

\* a variant that gives up at the first row the server refuses
RECURSIVE insert_data_abort(_, _, _)
insert_data_abort(t, linhas, st) ==
    IF linhas = <<>> \/ st.warnings > 0 THEN st
    ELSE LET r == Head(linhas)
             novo == Parametros(t, r)
             conflito == \E i \in 1..Len(st.linhas) :
                             st.linhas[i][ChaveDe(t)] = novo[ChaveDe(t)]
         IN  insert_data_abort(t, Tail(linhas),
                 IF RowRaises(t, r) THEN [st EXCEPT !.warnings = @ + 1]
                 ELSE IF conflito THEN [st EXCEPT !.inserted_count = @ + 1]
                 ELSE [st EXCEPT !.linhas = Append(@, novo), !.inserted_count = @ + 1])

\* insert_produtos_data, insert_vendas_data, insert_empregados_data: the
\* loop over the rows.  A row that raises is logged as a warning; ON
\* CONFLICT DO NOTHING skips a row whose key the table holds, without
\* raising, so the row is counted
RECURSIVE insert_data(_, _, _)
insert_data(t, linhas, st) ==
    IF linhas = <<>> THEN st
    ELSE LET r == Head(linhas)
             novo == Parametros(t, r)
             conflito == \E i \in 1..Len(st.linhas) :
                             st.linhas[i][ChaveDe(t)] = novo[ChaveDe(t)]
         IN  insert_data(t, Tail(linhas),
                 IF RowRaises(t, r) THEN [st EXCEPT !.warnings = @ + 1]
                 ELSE IF conflito THEN [st EXCEPT !.inserted_count = @ + 1]
                 ELSE [st EXCEPT !.linhas = Append(@, novo), !.inserted_count = @ + 1])

\* a variant with CREATE TABLE IF NOT EXISTS and no DROP
create_table_if_not_exists(tabela) ==
    IF tabela.existe THEN tabela ELSE [existe |-> TRUE, linhas |-> <<>>]

\* create_produtos_table, create_vendas_table, create_empregados_table:
\* DROP TABLE IF EXISTS, then CREATE TABLE
create_table(tabela) == [existe |-> TRUE, linhas |-> <<>>]

\* the call raised e
Falha(e) ==
    [tipo |-> "raise", erro |-> e, inserted_count |-> 0, warnings |-> 0, chamadas |-> 0,
     antes |-> <<>>]

\* a variant that connects and recreates the table before it validates
Loading_validate_late(t, df, aceita, banco) ==
    IF ~aceita \/ ~banco.existe
    THEN [conecta |-> TRUE, banco |-> banco, carga |-> Falha("OperationalError")]
    ELSE IF missing_columns(df.colunas, required_columns(t)) # {}
    THEN [conecta |-> TRUE,
          banco |-> [banco EXCEPT !.tabelas[t] = create_table(@)],
          carga |-> Falha("ValueError")]
    ELSE LET st == insert_data(t, df.linhas,
                       [linhas |-> create_table(banco.tabelas[t]).linhas,
                        inserted_count |-> 0, warnings |-> 0])
         IN  [conecta |-> TRUE,
              banco |-> [banco EXCEPT !.tabelas[t] = [existe |-> TRUE, linhas |-> st.linhas]],
              carga |-> [tipo |-> "return", erro |-> "", inserted_count |-> st.inserted_count,
                         warnings |-> st.warnings, chamadas |-> 0, antes |-> <<>>]]

\* loading_<t>_postgresql(df), lines 136-168, on the database banco of a
\* server that accepts the connection or not: whether a connection was asked
\* for, the database afterwards, and what the call did
Loading(t, df, aceita, banco) ==
    IF missing_columns(df.colunas, required_columns(t)) # {}
    THEN [conecta |-> FALSE, banco |-> banco, carga |-> Falha("ValueError")]
    ELSE IF ~aceita \/ ~banco.existe
    THEN [conecta |-> TRUE, banco |-> banco, carga |-> Falha("OperationalError")]
    ELSE LET st == insert_data(t, df.linhas,
                       [linhas |-> create_table(banco.tabelas[t]).linhas,
                        inserted_count |-> 0, warnings |-> 0])
         IN  [conecta |-> TRUE,
              banco |-> [banco EXCEPT !.tabelas[t] = [existe |-> TRUE, linhas |-> st.linhas]],
              carga |-> [tipo |-> "return", erro |-> "", inserted_count |-> st.inserted_count,
                         warnings |-> st.warnings, chamadas |-> 0, antes |-> <<>>]]

\* the rows of the DataFrames the load functions are given: two rows with
\* the key 1 and a row the server refuses
Produto(id, categoria) ==
    [id_produto |-> id, nome |-> Str(<<"P">>), preco |-> Num(1050), categoria |-> Str(categoria)]

Venda(id, quantidade) ==
    [id_venda |-> id, data |-> Str(D0101), id_produto |-> Num(1), id_empregado |-> Num(7),
     quantidade |-> quantidade, valor_unitario |-> Num(1050), valor_total |-> NaN]

Empregado(id, cargo) ==
    [id_empregado |-> id, nome |-> Str(<<"A", "n", "a">>), cargo |-> Str(cargo),
     idade |-> Num(30)]

Linhas(t) ==
    IF t = "produtos"
    THEN {Produto(Num(1), <<"A">>), Produto(Num(1), <<"B">>), Produto(NaN, <<"A">>)}
    ELSE IF t = "vendas"
    THEN {Venda(Num(1), Num(2)), Venda(Num(1), Num(3)), Venda(Num(2), NaN)}
    ELSE {Empregado(Num(1), <<"D", "e", "v">>), Empregado(Num(1), <<"O", "p", "s">>),
          Empregado(NaN, <<"D", "e", "v">>)}

\* the rows an earlier run left in the table: one with the key 1, one with
\* the key 2
Antigas(t) ==
    IF t = "produtos" THEN {Produto(Num(1), <<"B">>), Produto(Num(2), <<"A">>)}
    ELSE IF t = "vendas" THEN {Venda(Num(1), Num(3)), Venda(Num(2), Num(2))}
    ELSE {Empregado(Num(1), <<"O", "p", "s">>), Empregado(Num(2), <<"D", "e", "v">>)}

\* the DataFrames a load function is given: with every required column,
\* without the key column, or without one of the other required columns
Entradas(t) ==
    {[tabela |-> t, colunas |-> required_columns(t) \ falta, linhas |-> q] :
        falta \in {{}, {ChaveDe(t)}, {CHOOSE c \in required_columns(t) : c # ChaveDe(t)}},
        q \in SeqsUpTo(Linhas(t), MaxLinhas)}

\* one call of loading_<t>_postgresql; carga.antes keeps the rows the table
\* held when the call began
LoadCall(t) ==
    /\ carga.chamadas < MaxCargas
    /\ \E df \in Entradas(t), aceita \in BOOLEAN :
          LET res == Loading(t, df, aceita, db[BancoDeCarga])
          IN  /\ entrada' = df
              /\ db' = [db EXCEPT ![BancoDeCarga] = res.banco]
              /\ conexoes' = IF res.conecta THEN Append(conexoes, BancoDeCarga)
                             ELSE conexoes
              /\ carga' = [res.carga EXCEPT !.chamadas = carga.chamadas + 1,
                                            !.antes = db[BancoDeCarga].tabelas[t].linhas]
    /\ UNCHANGED <<pc, empVars, vendasVars, prodVars, procVars>>

loading_produtos_postgresql == pc = "l_produtos" /\ LoadCall("produtos")

loading_vendas_postgresql == pc = "l_vendas" /\ LoadCall("vendas")

loading_empregados_postgresql == pc = "l_empregados" /\ LoadCall("empregados")

NextLoad ==
    \/ loading_produtos_postgresql
    \/ loading_vendas_postgresql
    \/ loading_empregados_postgresql

\* the database bus2 before the first call: not there, there without the
\* table, or there with the table as an earlier run left it
BancoAntes(t) ==
    {SemBanco, [SemBanco EXCEPT !.existe = TRUE]}
    \cup {[SemBanco EXCEPT !.existe = TRUE,
                           !.tabelas[t] = [existe |-> TRUE, linhas |-> <<r>>]] :
             r \in Antigas(t)}

InitLoad ==
    /\ \E t \in Tabelas :
          /\ pc = (IF t = "produtos" THEN "l_produtos"
                   ELSE IF t = "vendas" THEN "l_vendas" ELSE "l_empregados")
          /\ db \in {[b \in {"bus2", "comercial"} |-> IF b = BancoDeCarga THEN x ELSE SemBanco] :
                        x \in BancoAntes(t)}
    /\ conexoes = <<>> /\ entrada = SemEntrada /\ carga = SemCarga
    /\ arquivos = {} /\ passo = 0 /\ iniciados = <<>>
    /\ resultado = [tipo |-> "none", registros |-> 0]
    /\ log = <<>> /\ status = "running"
    /\ empCsv = <<>> /\ emp = <<>>
    /\ vendasCsv = <<>> /\ vendas = <<>> /\ vcols = {} /\ vprev = <<>> /\ prodDb = <<>>
    /\ prodCsv = <<>> /\ prod = <<>>

SpecLoad == InitLoad /\ [][NextLoad]_vars

(***************************************************************************)
(* pipeline.py: main and run_step.  A step function is a call into another *)
(* module, the database and the file system: it returns, or it raises.     *)
(* The tables the transforms hand to the loads are held in prod, vendas    *)
(* and emp in the columns of the database.                                 *)
(***************************************************************************)
ArquivosDeEntrada == <<"produtos.csv", "vendas.csv", "empregados.csv">>

\* the nine calls of run_step in main, in the order main makes them
Passos == <<[modulo |-> "create_user_database", func |-> "create_user_db"],
            [modulo |-> "et_produtos", func |-> "extract_treat_produtos"],
            [modulo |-> "l_produtos", func |-> "loading_produtos_postgresql"],
            [modulo |-> "et_vendas", func |-> "extract_treat_vendas"],
            [modulo |-> "l_vendas", func |-> "loading_vendas_postgresql"],
            [modulo |-> "et_empregados", func |-> "extract_treat_empregados"],
            [modulo |-> "l_empregados", func |-> "loading_empregados_postgresql"],
            [modulo |-> "save_data_parquet", func |-> "save_parquet"],
            [modulo |-> "save_data_pdf_report", func |-> "save_pdf_report"]>>

\* the transforms return a DataFrame, the other step functions return None
RetornaDataFrame(step_num) ==
    Passos[step_num].func \in {"extract_treat_produtos", "extract_treat_vendas",
                               "extract_treat_empregados"}

Raise == [tipo |-> "raise", registros |-> 0]

\* what func(*args, **kwargs) can do
Resultados(step_num) ==
    {Raise} \cup
    (IF RetornaDataFrame(step_num)
     THEN {[tipo |-> "df", registros |-> k] : k \in 0..MaxRegistros}
     ELSE {[tipo |-> "none", registros |-> 0]})

LogRecord(nivel, msg, step_num, registros) ==
    [nivel |-> nivel, msg |-> msg, passo |-> step_num, registros |-> registros]

\* the first input file that is not there, in the order main looks for them
PrimeiroAusente ==
    CHOOSE i \in 1..Len(ArquivosDeEntrada) :
        /\ ArquivosDeEntrada[i] \notin arquivos
        /\ \A j \in 1..(i - 1) : ArquivosDeEntrada[j] \in arquivos

\* a variant that logs a missing input and goes on to step 1
main_check_inputs_goes_on ==
    /\ pc = "main_check_inputs"
    /\ log' = IF \E i \in 1..Len(ArquivosDeEntrada) : ArquivosDeEntrada[i] \notin arquivos
              THEN log \o <<LogRecord("INFO", "iniciando", 0, 0),
                            LogRecord("ERROR", "ausente", PrimeiroAusente, 0)>>
              ELSE Append(log, LogRecord("INFO", "iniciando", 0, 0))
    /\ status' = status
    /\ pc' = "main_run_step"
    /\ passo' = 1
    /\ UNCHANGED <<empVars, vendasVars, prodVars, arquivos, iniciados, resultado, dbVars>>

\* main, lines 20-48: the first record of the log and the check of the inputs
main_check_inputs ==
    /\ pc = "main_check_inputs"
    /\ IF \E i \in 1..Len(ArquivosDeEntrada) : ArquivosDeEntrada[i] \notin arquivos
       THEN /\ log' = log \o <<LogRecord("INFO", "iniciando", 0, 0),
                                LogRecord("ERROR", "ausente", PrimeiroAusente, 0)>>
            /\ status' = "exit 1"
            /\ pc' = "main_exited"
            /\ passo' = passo
       ELSE /\ log' = Append(log, LogRecord("INFO", "iniciando", 0, 0))
            /\ status' = status
            /\ pc' = "main_run_step"
            /\ passo' = 1
    /\ UNCHANGED <<empVars, vendasVars, prodVars, arquivos, iniciados, resultado, dbVars>>

\* the cleaned tables of k records a transform can return: the keys 1..k
Limpas(t, k) ==
    IF t = "produtos"
    THEN {[i \in 1..k |-> Produto(Num(i), c[i])] : c \in [1..k -> {<<"A">>, <<"B">>}]}
    ELSE IF t = "vendas" THEN {[i \in 1..k |-> Venda(Num(i), Num(2))]}
    ELSE {[i \in 1..k |-> Empregado(Num(i), <<"D", "e", "v">>)]}

DataFrame(t, linhas) == [tabela |-> t, colunas |-> required_columns(t), linhas |-> linhas]

\* the database has the three tables
TemTabelas(banco) == banco.existe /\ \A t \in Tabelas : banco.tabelas[t].existe

\* fetch_produtos_from_db: SELECT ... FROM produtos on the database
\* comercial; the columns the sales transform uses
fetch_produtos_from_db(bancos) ==
    LET linhas == bancos[BancoDeConsulta].tabelas["produtos"].linhas
    IN  [i \in 1..Len(linhas) |->
            [id_produto |-> linhas[i].id_produto, categoria |-> linhas[i].categoria]]

\* step 3, 5 or 7: the load of the cleaned table df into the table t
EfeitoCarga(t, df, r) ==
    LET res == Loading(t, DataFrame(t, df), r # Raise, db[BancoDeCarga])
    IN  /\ (r = Raise) <=> (res.carga.tipo = "raise")
        /\ db' = [db EXCEPT ![BancoDeCarga] = res.banco]
        /\ conexoes' = IF res.conecta THEN Append(conexoes, BancoDeCarga) ELSE conexoes
        /\ UNCHANGED <<prod, vendas, emp, prodDb>>

\* what the function of step step_num does to the databases and to the
\* tables main holds when its outcome is r
Efeito(step_num, r) ==
    IF step_num = 1
    THEN /\ conexoes' = Append(conexoes, BancoDoSuperusuario)
         /\ db' = IF r = Raise THEN db ELSE [db EXCEPT ![BancoDeConsulta].existe = TRUE]
         /\ UNCHANGED <<prod, vendas, emp, prodDb>>
    ELSE IF step_num = 2
    THEN /\ IF r = Raise THEN prod' = prod ELSE prod' \in Limpas("produtos", r.registros)
         /\ UNCHANGED <<db, conexoes, vendas, emp, prodDb>>
    ELSE IF step_num = 3 THEN EfeitoCarga("produtos", prod, r)
    ELSE IF step_num = 4
    THEN IF r = Raise
         THEN /\ conexoes' \in {conexoes, Append(conexoes, BancoDeConsulta)}
              /\ UNCHANGED <<db, prod, vendas, emp, prodDb>>
         ELSE /\ db[BancoDeConsulta].existe
              /\ db[BancoDeConsulta].tabelas["produtos"].existe
              /\ conexoes' = Append(conexoes, BancoDeConsulta)
              /\ prodDb' = fetch_produtos_from_db(db)
              /\ vendas' \in Limpas("vendas", r.registros)
              /\ UNCHANGED <<db, prod, emp>>
    ELSE IF step_num = 5 THEN EfeitoCarga("vendas", vendas, r)
    ELSE IF step_num = 6
    THEN /\ IF r = Raise THEN emp' = emp ELSE emp' \in Limpas("empregados", r.registros)
         /\ UNCHANGED <<db, conexoes, prod, vendas, prodDb>>
    ELSE IF step_num = 7 THEN EfeitoCarga("empregados", emp, r)
    ELSE IF step_num = 8
    THEN /\ r # Raise => TemTabelas(db[BancoDeCarga])
         /\ conexoes' = Append(conexoes, BancoDeCarga)
         /\ UNCHANGED <<db, prod, vendas, emp, prodDb>>
    ELSE /\ r # Raise => TemTabelas(db[BancoDeConsulta])
         /\ conexoes' = Append(conexoes, BancoDeConsulta)
         /\ UNCHANGED <<db, prod, vendas, emp, prodDb>>

\* a variant that logs the failure of a step and goes on to the next one
run_step_continue(step_num) ==
    /\ pc = "main_run_step" /\ passo = step_num
    /\ iniciados' = Append(iniciados, step_num)
    /\ \E r \in Resultados(step_num) :
          /\ resultado' = r
          /\ Efeito(step_num, r)
          /\ log' = log \o <<LogRecord("INFO", "inicio", step_num, 0),
                              IF r = Raise THEN LogRecord("ERROR", "falha", step_num, 0)
                              ELSE LogRecord("INFO", "concluido", step_num, r.registros)>>
    /\ status' = status
    /\ passo' = step_num + 1
    /\ pc' = IF step_num = Len(Passos) THEN "main_finish" ELSE "main_run_step"
    /\ UNCHANGED <<empCsv, vendasCsv, vcols, vprev, prodCsv, arquivos, entrada, carga>>

\* run_step, lines 50-69, as main calls it for step step_num
run_step(step_num) ==
    /\ pc = "main_run_step" /\ passo = step_num
    /\ iniciados' = Append(iniciados, step_num)
    /\ \E r \in Resultados(step_num) :
          /\ resultado' = r
          /\ Efeito(step_num, r)
          /\ IF r = Raise
             THEN /\ log' = log \o <<LogRecord("INFO", "inicio", step_num, 0),
                                      LogRecord("ERROR", "falha", step_num, 0)>>
                  /\ status' = "exit 1"
                  /\ pc' = "main_exited"
                  /\ passo' = passo
             ELSE /\ log' = log \o <<LogRecord("INFO", "inicio", step_num, 0),
                                      LogRecord("INFO", "concluido", step_num, r.registros)>>
                  /\ status' = status
                  /\ pc' = IF step_num = Len(Passos) THEN "main_finish" ELSE "main_run_step"
                  /\ passo' = step_num + 1
    /\ UNCHANGED <<empCsv, vendasCsv, vcols, vprev, prodCsv, arquivos, entrada, carga>>

\* main, lines 98-99: the last record of the log; the process ends
main_finish ==
    /\ pc = "main_finish"
    /\ log' = Append(log, LogRecord("INFO", "finalizado com sucesso", 0, 0))
    /\ status' = "exit 0"
    /\ pc' = "main_done"
    /\ UNCHANGED <<empVars, vendasVars, prodVars, arquivos, passo, iniciados, resultado,
                   dbVars>>

NextPipeline ==
    \/ main_check_inputs
    \/ run_step(1)
    \/ run_step(2)
    \/ run_step(3)
    \/ run_step(4)
    \/ run_step(5)
    \/ run_step(6)
    \/ run_step(7)
    \/ run_step(8)
    \/ run_step(9)
    \/ main_finish

\* a database before the run: not there, there without tables, or there
\* with the tables an earlier run left
BancoAnterior ==
    [existe |-> TRUE,
     tabelas |-> [t \in Tabelas |->
                    [existe |-> TRUE,
                     linhas |-> <<CHOOSE r \in Antigas(t) : r[ChaveDe(t)] = Num(1)>>]]]

InitPipeline ==
    /\ pc = "main_check_inputs"
    /\ db \in [{BancoDeCarga, BancoDeConsulta} ->
                  {SemBanco, [SemBanco EXCEPT !.existe = TRUE], BancoAnterior}]
    /\ conexoes = <<>> /\ entrada = SemEntrada /\ carga = SemCarga
    /\ arquivos \in SUBSET {ArquivosDeEntrada[i] : i \in 1..Len(ArquivosDeEntrada)}
    /\ passo = 0 /\ iniciados = <<>>
    /\ resultado = [tipo |-> "none", registros |-> 0]
    /\ log = <<>> /\ status = "running"
    /\ empCsv = <<>> /\ emp = <<>>
    /\ vendasCsv = <<>> /\ vendas = <<>> /\ vcols = {} /\ vprev = <<>> /\ prodDb = <<>>
    /\ prodCsv = <<>> /\ prod = <<>>

SpecPipeline == InitPipeline /\ [][NextPipeline]_vars

(***************************************************************************)
(* The three transforms together.                                          *)
(***************************************************************************)
Init == InitEmpK \/ InitVendasD \/ InitProd

Next == NextEmp \/ NextVendas \/ NextProd

Spec == Init /\ [][Next]_vars

(***************************************************************************)
(* Properties.                                                             *)
(***************************************************************************)
LoadStages == {"e_load", "v_load", "p_load"}
DedupeStages == {"e_remove_duplicates", "v_remove_duplicates", "p_remove_duplicates"}

SameCounts == Len(emp') = Len(emp) /\ Len(vendas') = Len(vendas) /\ Len(prod') = Len(prod)

KeysOf(df, key) == {df[i][key] : i \in 1..Len(df)}

\* C1, as the specification states it: every repair stage, remove_duplicates
\* included, returns as many records as it was given.
C1_EveryStageKeepsCount ==
    [][pc \notin LoadStages => SameCounts]_vars

\* C1, amended: every repair stage other than remove_duplicates leaves the
\* number of records unchanged; remove_duplicates returns one record for each
\* distinct key of its input (missing keys are one key), so never more records.
C1_RowCount ==
    [][/\ pc \notin (LoadStages \cup DedupeStages) => SameCounts
       /\ pc = "e_remove_duplicates" =>
             Len(emp') = Cardinality(KeysOf(emp, "id_empregado"))
       /\ pc = "v_remove_duplicates" =>
             Len(vendas') = Cardinality(KeysOf(vendas, "id_venda"))
       /\ pc = "p_remove_duplicates" =>
             Len(prod') = Cardinality(KeysOf(prod, "id_produto"))
       /\ pc \in DedupeStages => Len(emp') <= Len(emp) /\ Len(vendas') <= Len(vendas)
                                 /\ Len(prod') <= Len(prod)]_vars

\* a product file with a missing category and a missing price went through
\* every stage and kept its records
C1_Witness ==
    /\ pc = "p_done" /\ Len(prod) = 2 /\ Len(prodCsv) = 2
    /\ \E i \in 1..2 : prodCsv[i].categoria = <<>> /\ prodCsv[i].preco = <<>>

EmpAfterIds == {"e_fix_missing_names", "e_fill_missing_cargos", "e_fill_missing_ages",
                "e_validate_age_range", "e_done", "e_raised"}

\* C2: after remove_duplicates and fill_missing_employee_ids, the number of
\* distinct keys of the employee table equals its number of records.
C2_KeyUniqueness ==
    pc \in EmpAfterIds => Cardinality(KeysOf(emp, "id_empregado")) = Len(emp)

\* C3: every line of the file whose key is empty or made of spaces is still
\* a record after remove_duplicates and fill_missing_employee_ids, and
\* carries an integer key.
C3_MissingKeysKept ==
    pc \in EmpAfterIds =>
        \A l \in 1..Len(empCsv) :
            IsSpaces(empCsv[l].id_empregado) =>
                \E i \in 1..Len(emp) : emp[i].row = l /\ emp[i].id_empregado.k = "num"

\* C5: once fill_missing_ages and validate_age_range have run, every record
\* has an integer age between 18 and 70.
C5_AgeBounds ==
    pc \in {"e_done", "e_raised"} =>
        \A i \in 1..Len(emp) :
            emp[i].idade.k = "num" /\ emp[i].idade.n >= MinAge /\ emp[i].idade.n <= MaxAge

(***************************************************************************)
(* Dates.  The properties name the median through order statistics, not    *)
(* through the sort of the model.                                          *)
(***************************************************************************)
\* validate_and_fill_dates has just returned
DatesDone == pc = "v_fill_missing_unit_values"

\* a bag of days is a function from the rows that carry them
CountBelow(q, x) == Cardinality({j \in DOMAIN q : q[j] < x})
CountUpTo(q, x) == Cardinality({j \in DOMAIN q : q[j] <= x})
Size(q) == Cardinality(DOMAIN q)

\* the k-th smallest element of q
KthSmallest(q, k) ==
    CHOOSE x \in {q[j] : j \in DOMAIN q} : CountBelow(q, x) < k /\ k <= CountUpTo(q, x)

\* the day of the median of the days q: the middle day, or the day in which
\* the midpoint of the two middle days falls
MedianDay(q) ==
    (KthSmallest(q, (Size(q) + 1) \div 2) + KthSmallest(q, (Size(q) + 2) \div 2)) \div 2

Parseable(c) == c.k = "str" /\ Strptime(c.s) # NoDate

\* the days of the dated sales of the employee of row i, row i left out
PeerDays(df, i) ==
    [j \in {j \in 1..Len(df) : /\ j # i
                                /\ Parseable(df[j].data)
                                /\ ~IsNull(df[j].id_empregado)
                                /\ df[j].id_empregado = df[i].id_empregado}
        |-> Strptime(df[j].data.s)]

AllDays(df) ==
    [j \in {j \in 1..Len(df) : Parseable(df[j].data)} |-> Strptime(df[j].data.s)]

NoDays(q) == DOMAIN q = {}

IsCanonical(c) == c.k = "str" /\ Len(c.s) = 10 /\ Strptime(c.s) # NoDate

\* C4: when validate_and_fill_dates returns, every date parses as
\* DD/MM/YYYY and the table has as many records as it was given.
C4_DateValidity ==
    DatesDone => /\ Len(vendas) = Len(vprev)
                 /\ \A i \in 1..Len(vendas) : Parseable(vendas[i].data)

\* a table with a missing, a malformed and a valid date went through
C4_Witness ==
    /\ DatesDone
    /\ \E i, j, k \in 1..Len(vprev) :
          /\ DateIsMissing(vprev[i].data)
          /\ ~DateIsMissing(vprev[j].data) /\ ~Parseable(vprev[j].data)
          /\ Parseable(vprev[k].data)

\* C6: a sale without a date whose employee has other sales with a parseable
\* date ends with the median of those dates, flagged as imputed with the
\* method mediana_empregado.
C6_Tier1 ==
    DatesDone =>
        \A i \in 1..Len(vprev) :
            (DateIsMissing(vprev[i].data) /\ ~NoDays(PeerDays(vprev, i))) =>
                /\ IsCanonical(vendas[i].data)
                /\ Strptime(vendas[i].data.s) = MedianDay(PeerDays(vprev, i))
                /\ vendas[i].data_imputada
                /\ vendas[i].metodo_imputacao = MedianaEmpregado

\* the sale of an employee whose two other sales are of 01/01/2024 and
\* 03/01/2024 got 02/01/2024
C6_Witness ==
    /\ DatesDone
    /\ \E i \in 1..Len(vprev) :
          /\ DateIsMissing(vprev[i].data)
          /\ Size(PeerDays(vprev, i)) = 2
          /\ \E a, b \in DOMAIN PeerDays(vprev, i) :
                PeerDays(vprev, i)[a] # PeerDays(vprev, i)[b]
          /\ vendas[i].metodo_imputacao = MedianaEmpregado
          /\ vendas[i].data = Str(<<"0", "2", "/", "0", "1", "/", "2", "0", "2", "4">>)

\* C7: the pass of the global median gives every sale that is still without a
\* date the same date, the median of all the parseable dates the table holds
\* at that point, and the method mediana_global, whenever the table holds a
\* parseable date.
C7_Tier2 ==
    [][(pc = "v_fill_remaining_dates_with_pattern" /\ ~NoDays(AllDays(vendas))) =>
          \A i \in 1..Len(vendas) :
              DateIsMissing(vendas[i].data) =>
                  /\ IsCanonical(vendas'[i].data)
                  /\ Strptime(vendas'[i].data.s) = MedianDay(AllDays(vendas))
                  /\ vendas'[i].data_imputada
                  /\ vendas'[i].metodo_imputacao = MedianaGlobal]_vars

\* two sales without a date, of employees without a dated sale, got the one
\* parseable date of the table
C7_Witness ==
    /\ pc = "v_handle_extreme_missing_dates"
    /\ \E i, j, a \in 1..Len(vendas) :
          /\ i # j
          /\ DateIsMissing(vprev[i].data) /\ DateIsMissing(vprev[j].data)
          /\ Parseable(vprev[a].data)
          /\ vendas[i].metodo_imputacao = MedianaGlobal
          /\ vendas[j].metodo_imputacao = MedianaGlobal
          /\ vendas[i].data = vprev[a].data /\ vendas[j].data = vprev[a].data

\* C8: a sale has the method data_atual only when the table it came in had no
\* parseable date; and then every sale that came without a date has the date
\* of the run and the method data_atual.
C8_Tier3 ==
    DatesDone =>
        /\ \A i \in 1..Len(vendas) :
              vendas[i].metodo_imputacao = DataAtual => NoDays(AllDays(vprev))
        /\ NoDays(AllDays(vprev)) =>
              \A i \in 1..Len(vprev) :
                  DateIsMissing(vprev[i].data) =>
                      /\ vendas[i].data = Str(Today)
                      /\ vendas[i].data_imputada
                      /\ vendas[i].metodo_imputacao = DataAtual

\* a table of two sales without a date and one malformed date
C8_Witness ==
    /\ DatesDone
    /\ Len(vendas) = 3
    /\ Cardinality({i \in 1..3 : vendas[i].metodo_imputacao = DataAtual}) = 2
    /\ \E i \in 1..3 : ~DateIsMissing(vprev[i].data)

\* C9: the validation pass overwrites every date that does not parse with
\* the date of the run, flags the record as imputed and sets its method to
\* formato_invalido; records whose date was never missing are included.
C9_FormatPass ==
    /\ [][pc = "v_parse_and_validate_date_format" =>
            \A i \in 1..Len(vendas) :
                ~Parseable(vendas[i].data) =>
                    /\ vendas'[i].data = Str(Today)
                    /\ vendas'[i].data_imputada
                    /\ vendas'[i].metodo_imputacao = FormatoInvalido]_vars
    /\ [](DatesDone =>
            \A i \in 1..Len(vprev) :
                (~DateIsMissing(vprev[i].data) /\ ~Parseable(vprev[i].data)) =>
                    /\ vendas[i].data = Str(Today)
                    /\ vendas[i].data_imputada
                    /\ vendas[i].metodo_imputacao = FormatoInvalido)

\* the sale dated 31/02/2024 was overwritten, next to a sale a tier filled
C9_Witness ==
    /\ DatesDone
    /\ \E i, j \in 1..Len(vprev) :
          /\ vprev[i].data = Str(D3102)
          /\ vendas[i].data = Str(Today)
          /\ vendas[i].metodo_imputacao = FormatoInvalido
          /\ vendas[j].metodo_imputacao = MedianaGlobal

DateStages == {"v_validate_and_fill_dates", "v_fill_missing_dates_by_employee",
               "v_fill_remaining_dates_with_pattern", "v_handle_extreme_missing_dates",
               "v_parse_and_validate_date_format"}

\* row i, when its date parses, goes through the step as it is
KeepsResolved(i) ==
    Parseable(vendas[i].data) =>
        /\ vendas'[i].data = vendas[i].data
        /\ vendas'[i].data_imputada = vendas[i].data_imputada
        /\ vendas[i].data_imputada =>
              vendas'[i].metodo_imputacao = vendas[i].metodo_imputacao
        /\ ~vendas[i].data_imputada =>
              vendas'[i].metodo_imputacao \in {MetodoNaN, MetodoVazio}

\* C10: in no pass of validate_and_fill_dates does a sale with a parseable
\* date change its date or its flag; an unflagged one gets no method, and a
\* flagged one (a tier resolved it) keeps the method of that tier.
C10_Frame ==
    [][(pc \in DateStages) => \A i \in 1..Len(vendas) : KeepsResolved(i)]_vars

\* a table with an untouched sale, a sale tier 1 filled and a sale tier 2
\* filled
C10_Witness ==
    /\ DatesDone
    /\ \E i, j, k \in 1..Len(vendas) :
          /\ Parseable(vprev[i].data) /\ vendas[i].data = vprev[i].data
          /\ ~vendas[i].data_imputada
          /\ vendas[j].metodo_imputacao = MedianaEmpregado
          /\ vendas[k].metodo_imputacao = MedianaGlobal

(***************************************************************************)
(* Ages.  The median is named through order statistics.                    *)
(***************************************************************************)
\* the rounded median of a bag of ages, halves going to the even integer
RoundedMedian(q) ==
    LET twice == KthSmallest(q, (Size(q) + 1) \div 2) + KthSmallest(q, (Size(q) + 2) \div 2)
    IN  IF twice % 2 = 0 THEN twice \div 2
        ELSE IF (twice \div 2) % 2 = 0 THEN twice \div 2 ELSE (twice \div 2) + 1

HasAge(r) == ~IsNull(ToNumeric(r.idade))

\* the ages of the other employees with the title of row i
PeerAges(df, i) ==
    [j \in {j \in 1..Len(df) : j # i /\ HasAge(df[j]) /\ df[j].cargo = df[i].cargo}
        |-> ToNumeric(df[j].idade).n]

AllAges(df) == [j \in {j \in 1..Len(df) : HasAge(df[j])} |-> ToNumeric(df[j].idade).n]

\* C11: fill_missing_ages gives every employee without an age the rounded
\* median of the ages of the other employees with its title and the method
\* mediana_cargo when the table it was given holds such an age; otherwise,
\* when that table holds any age, the rounded median of all its ages and the
\* method mediana_global.
C11_AgeFallback ==
    [][pc = "e_fill_missing_ages" =>
          \A i \in 1..Len(emp) :
              ~HasAge(emp[i]) =>
                  /\ ~NoDays(PeerAges(emp, i)) =>
                        /\ emp'[i].idade = Num(RoundedMedian(PeerAges(emp, i)))
                        /\ emp'[i].idade_imputada
                        /\ emp'[i].metodo_imputacao_idade = MedianaCargo
                  /\ (NoDays(PeerAges(emp, i)) /\ ~NoDays(AllAges(emp))) =>
                        /\ emp'[i].idade = Num(RoundedMedian(AllAges(emp)))
                        /\ emp'[i].idade_imputada
                        /\ emp'[i].metodo_imputacao_idade = MedianaGlobal]_vars

(***************************************************************************)
(* Money.                                                                  *)
(***************************************************************************)
HasPrice(r) == ~IsNull(ToNumeric(r.preco))

HasUnitValue(r) == ~IsNull(ToNumeric(r.valor_unitario))

\* the category the table produtos gives to a sale, NaN when it gives none
CategoriaDe(sale, prods) ==
    IF \E j \in 1..Len(prods) : CellEq(prods[j].id_produto, sale.id_produto)
    THEN prods[CHOOSE j \in 1..Len(prods) :
                   CellEq(prods[j].id_produto, sale.id_produto)].categoria
    ELSE NaN

\* C12, as the specification states it: a price or a unit value is still
\* unset after its imputation stage only if no record of the table had a
\* price or a unit value.
C12_UnsetOnlyIfNoValue ==
    [][/\ pc = "p_fill_missing_prices" =>
             \A i \in 1..Len(prod) :
                 ~HasPrice(prod'[i]) => \A j \in 1..Len(prod) : ~HasPrice(prod[j])
       /\ (pc = "v_fill_missing_unit_values" /\ pc' = "v_calculate_total_values") =>
             \A i \in 1..Len(vendas) :
                 ~HasUnitValue(vendas'[i]) =>
                     \A j \in 1..Len(vendas) : ~HasUnitValue(vendas[j])]_vars

\* C12, amended: the median is taken inside the category.  A product without
\* a price gets one exactly when it has a key and another product of its
\* category has a price.  A sale without a unit value whose product has a
\* category gets one exactly when a sale of that category has a unit value; a
\* sale whose product has no category gets one exactly when some sale has a
\* unit value.  A value that was set is never unset.
C12_UnsetIffNoValueInScope ==
    [][/\ pc = "p_fill_missing_prices" =>
             \A i \in 1..Len(prod) :
                 HasPrice(prod'[i]) <=>
                     \/ HasPrice(prod[i])
                     \/ /\ ~IsNull(prod[i].id_produto)
                        /\ \E j \in 1..Len(prod) :
                              /\ j # i /\ HasPrice(prod[j])
                              /\ prod[j].categoria = prod[i].categoria
       /\ (pc = "v_fill_missing_unit_values" /\ pc' = "v_calculate_total_values") =>
             \A i \in 1..Len(vendas) :
                 HasUnitValue(vendas'[i]) <=>
                     \/ HasUnitValue(vendas[i])
                     \/ \E j \in 1..Len(vendas) :
                           /\ HasUnitValue(vendas[j])
                           /\ \/ IsNull(CategoriaDe(vendas[i], prodDb))
                              \/ CategoriaDe(vendas[j], prodDb) =
                                     CategoriaDe(vendas[i], prodDb)]_vars

\* a product of category A is left without a price next to a priced product
\* of another category
C12_Witness ==
    /\ pc = "p_done" /\ Len(prod) = 2
    /\ \E i, j \in 1..2 :
          /\ ~IsNull(prod[i].id_produto) /\ IsNull(prod[i].preco)
          /\ prod[i].categoria = Str(<<"A">>)
          /\ ~IsNull(prod[j].preco) /\ prod[j].categoria = Desconhecida

\* C13: when no line of the file has a parseable age, the employee transform
\* does not raise: it runs to its end and leaves every age unset.
C13_GapNotFatal ==
    (\A l \in 1..Len(empCsv) : ~IsNumericText(empCsv[l].idade)) =>
        /\ pc # "e_raised"
        /\ pc = "e_done" => \A i \in 1..Len(emp) : IsNull(emp[i].idade)

(***************************************************************************)
(* Duplicates.                                                             *)
(***************************************************************************)
\* the records of df that no earlier record shares its key with
FirstOccurrences(df, key) ==
    {i \in 1..Len(df) : \A j \in 1..(i - 1) : df[j][key] # df[i][key]}

\* out is made of the first occurrences of df, whole and in their order
KeepsFirst(out, df, key) ==
    /\ Len(out) = Cardinality(FirstOccurrences(df, key))
    /\ \A i \in FirstOccurrences(df, key) :
          out[1 + Cardinality({j \in FirstOccurrences(df, key) : j < i})] = df[i]

\* C14: in each of the three tables remove_duplicates returns, for every key
\* value (a missing key counts as one value), the earliest record that carries
\* it, with all its fields as they were; it returns nothing else, and the
\* records it returns are in the order they had.
C14_KeepsFirst ==
    [][/\ pc = "e_remove_duplicates" => KeepsFirst(emp', emp, "id_empregado")
       /\ pc = "v_remove_duplicates" => KeepsFirst(vendas', vendas, "id_venda")
       /\ pc = "p_remove_duplicates" => KeepsFirst(prod', prod, "id_produto")]_vars

\* of three employee lines the first and the third share the key 1 and differ
\* in their age: the first and the second are what is left
C14_Witness ==
    /\ pc = "e_fill_missing_employee_ids"
    /\ Len(empCsv) = 3 /\ Len(emp) = 2
    /\ empCsv[1].id_empregado = <<"1">> /\ empCsv[3].id_empregado = <<"1">>
    /\ empCsv[1].idade # empCsv[3].idade
    /\ emp[1].row = 1 /\ emp[2].row = 2

(***************************************************************************)
(* Keys of the employees.                                                  *)
(***************************************************************************)
\* the records fill_missing_employee_ids takes as having no key
SemId(df) == {i \in 1..Len(df) : IdIsBlank(df[i].id_empregado)}

\* the numeric keys of the other records
IdsValidos(df) ==
    {ToNumeric(df[i].id_empregado).n :
        i \in {j \in 1..Len(df) \ SemId(df) : ~IsNull(ToNumeric(df[j].id_empregado))}}

MaiorId(df) ==
    IF IdsValidos(df) = {} THEN 0
    ELSE CHOOSE m \in IdsValidos(df) : \A v \in IdsValidos(df) : v <= m

\* C15: fill_missing_employee_ids gives the records without a key, in their
\* order, the integers max+1, max+2, ... where max is the largest numeric key
\* of the table (0 when there is none); every record that had a key still has
\* it, as an integer when it was a number; and no key given equals a key
\* that was there.
C15_SequentialIds ==
    [][pc = "e_fill_missing_employee_ids" =>
          /\ \A i \in SemId(emp) :
                emp'[i].id_empregado =
                    Num(MaiorId(emp) + 1 + Cardinality({j \in SemId(emp) : j < i}))
          /\ \A i \in 1..Len(emp) \ SemId(emp) :
                /\ ~IsNull(emp'[i].id_empregado)
                /\ ~IsNull(ToNumeric(emp[i].id_empregado)) =>
                      emp'[i].id_empregado = ToNumeric(emp[i].id_empregado)
          /\ \A i \in SemId(emp) : \A j \in 1..Len(emp) \ SemId(emp) :
                emp'[i].id_empregado # emp'[j].id_empregado]_vars

(***************************************************************************)
(* Names.                                                                  *)
(***************************************************************************)
\* the text t is the prefix followed by the key c as Python prints it: the
\* digits of an integer, with .0 after them when the key column has a hole
\* and is therefore a column of floats, and nan for the hole itself
NamesKey(t, prefix, c) ==
    /\ Len(t) > Len(prefix) /\ SubSeq(t, 1, Len(prefix)) = prefix
    /\ LET rest == SubSeq(t, Len(prefix) + 1, Len(t))
       IN  \/ c.k = "num" /\ rest \in {IntToText(c.n), IntToText(c.n) \o <<".", "0">>}
           \/ c.k = "nan" /\ rest = <<"n", "a", "n">>
           \/ c.k = "str" /\ rest = c.s

Blank(c) == c.k = "nan" \/ (c.k = "str" /\ \A k \in 1..Len(c.s) : c.s[k] = " ")

\* 'Funcionario ' followed by the key as Python prints it
Placeholder(c) ==
    FuncionarioPrefix \o (IF c.k = "num" THEN IntToText(c.n)
                          ELSE IF c.k = "str" THEN c.s
                          ELSE <<"<", "N", "A", ">">>)

\* C17: fix_missing_names writes the placeholder built from the key over the
\* names that are null, empty or made of spaces, and over no other name: a
\* name with any other character in it is left as it is.
C17_BlankNamesOnly ==
    [][pc = "e_fix_missing_names" =>
          \A i \in 1..Len(emp) :
              /\ Blank(emp[i].nome) =>
                    emp'[i].nome = Str(Placeholder(emp[i].id_empregado))
              /\ ~Blank(emp[i].nome) => emp'[i].nome = emp[i].nome]_vars

\* of two employees the one whose name is two spaces is now Funcionario 1,
\* and Ana is still Ana
C17_Witness ==
    /\ pc = "e_fill_missing_cargos" /\ Len(emp) = 2
    /\ \E i, j \in 1..2 :
          /\ empCsv[emp[i].row].nome = <<" ", " ">>
          /\ emp[i].nome = Str(FuncionarioPrefix \o <<"1">>)
          /\ emp[j].nome = Str(<<"A", "n", "a">>)

(***************************************************************************)
(* Sentinels.                                                              *)
(***************************************************************************)
NullOrEmpty(c) == c.k = "nan" \/ (c.k = "str" /\ c.s = <<>>)

\* the cell after is the sentinel when the cell before was null or empty,
\* and the cell before otherwise
SentinelFill(before, after, sentinel) ==
    /\ ~NullOrEmpty(after)
    /\ NullOrEmpty(before) => after = sentinel
    /\ ~NullOrEmpty(before) => after = before

\* C18: fill_missing_categories leaves no product with a null or empty
\* category and fill_missing_cargos no employee with a null or empty title:
\* the fields that were null or empty hold 'Desconhecida' and 'Nao Informado',
\* the others hold what they held.
C18_SentinelFill ==
    [][/\ pc = "p_fill_missing_categories" =>
             \A i \in 1..Len(prod) :
                 SentinelFill(prod[i].categoria, prod'[i].categoria, Desconhecida)
       /\ pc = "e_fill_missing_cargos" =>
             \A i \in 1..Len(emp) :
                 SentinelFill(emp[i].cargo, emp'[i].cargo, NaoInformado)]_vars

\* of two employees the one without a title is now 'Nao Informado' and the
\* one whose title is a space still has it
C18_Witness ==
    /\ pc = "e_fill_missing_ages" /\ Len(emp) = 2
    /\ \E i, j \in 1..2 :
          /\ empCsv[emp[i].row].cargo = <<>> /\ emp[i].cargo = NaoInformado
          /\ emp[j].cargo = Str(<<" ">>)

(***************************************************************************)
(* Totals.  Money is in hundredths, quantities are integers.               *)
(***************************************************************************)
IsNumber(c) == c.k = "num" \/ (c.k = "str" /\ IsNumericText(c.s))

NumberOf(c) == IF c.k = "num" THEN c.n ELSE ParseDigits(c.s)

\* C19: when calculate_total_values returns, a sale whose total was a number
\* has that total; a sale whose total was missing or not a number has the
\* product of its quantity and its unit value, which is a number whenever
\* both are set and missing otherwise.
C19_TotalDerivation ==
    [][(pc = "v_calculate_total_values" /\ pc' = "v_done") =>
          \A i \in 1..Len(vendas) :
              /\ vendas[i].valor_total.k = "num" =>
                    vendas'[i].valor_total = vendas[i].valor_total
              /\ (vendas[i].valor_total.k # "num"
                     /\ IsNumber(vendas[i].quantidade)
                     /\ vendas[i].valor_unitario.k = "num") =>
                    vendas'[i].valor_total =
                        Num(NumberOf(vendas[i].quantidade) * vendas[i].valor_unitario.n)
              /\ (vendas[i].valor_total.k # "num"
                     /\ ~(IsNumber(vendas[i].quantidade)
                          /\ vendas[i].valor_unitario.k = "num")) =>
                    IsNull(vendas'[i].valor_total)]_vars

\* of two sales of 2 units at 20.50 the one without a total now has 41.00
\* and the one whose total read 5 still has 5.00
C19_Witness ==
    /\ pc = "v_done" /\ Len(vendas) = 2
    /\ \E i, j \in 1..2 :
          /\ vendasCsv[i].valor_total = <<>> /\ vendasCsv[i].quantidade = <<"2">>
          /\ vendas[i].valor_total = Num(4100)
          /\ vendasCsv[j].valor_total = <<"5">> /\ vendasCsv[j].quantidade = <<"2">>
          /\ vendas[j].valor_unitario = Num(2050)
          /\ vendas[j].valor_total = Num(500)

(***************************************************************************)
(* The pipeline.                                                           *)
(***************************************************************************)
Logged(msg, step_num) == \E k \in 1..Len(log) : log[k].msg = msg /\ log[k].passo = step_num

\* C20: the steps are started one at a time in the order 1, 2, ..., 9; a step
\* that raises has its failure logged and ends the process with status 1;
\* once the process has ended nothing runs, so no later step is started; and
\* the success message is in the log only when all nine steps were started
\* and none of them raised.
C20_FailFast ==
    /\ [](/\ Len(iniciados) <= Len(Passos)
          /\ \A k \in 1..Len(iniciados) : iniciados[k] = k)
    /\ [][/\ status = "running"
           /\ Len(iniciados') <= Len(iniciados) + 1
           /\ resultado' = Raise =>
                 /\ status' = "exit 1"
                 /\ log'[Len(log')] = LogRecord("ERROR", "falha", passo, 0)]_vars
    /\ [](Logged("falha", Len(iniciados)) => status = "exit 1")
    /\ [](Logged("finalizado com sucesso", 0) =>
             /\ Len(iniciados) = Len(Passos)
             /\ \A n \in 1..Len(Passos) : Logged("concluido", n) /\ ~Logged("falha", n))

\* step 4 raised after steps 1 to 3 returned: the process is over with
\* status 1 and steps 5 to 9 were never started
C20_Witness ==
    /\ status = "exit 1" /\ resultado = Raise
    /\ iniciados = <<1, 2, 3, 4>>
    /\ Logged("concluido", 3) /\ Logged("falha", 4)

(***************************************************************************)
(* The median of an even number of dates.                                  *)
(***************************************************************************)
IsEven(q) == Size(q) > 0 /\ Size(q) % 2 = 0

\* the two middle days of an even number of days
LowerMiddle(q) == KthSmallest(q, Size(q) \div 2)
UpperMiddle(q) == KthSmallest(q, (Size(q) \div 2) + 1)

\* the day tier 1 leaves in row i, and the day tier 2 gives row i
Tier1Day(i, day) ==
    DatesDone =>
        ((DateIsMissing(vprev[i].data) /\ IsEven(PeerDays(vprev, i))) =>
            Strptime(vendas[i].data.s) = day)

Tier2Day(i, day) ==
    (/\ pc = "v_fill_remaining_dates_with_pattern"
     /\ DateIsMissing(vendas[i].data)
     /\ IsEven(AllDays(vendas))) =>
        (IsCanonical(vendas'[i].data) /\ Strptime(vendas'[i].data.s) = day)

\* C23 as stated: a date imputed from an even number of peer dates (tier 1)
\* or of table dates (tier 2) is the lower of the two middle dates.
C23_LowerMiddle ==
    /\ [](\A i \in 1..Len(vprev) : Tier1Day(i, LowerMiddle(PeerDays(vprev, i))))
    /\ [][\A i \in 1..Len(vendas) : Tier2Day(i, LowerMiddle(AllDays(vendas)))]_vars

\* C23: a date imputed from an even number of peer dates (tier 1) or of
\* table dates (tier 2) is the day in which the midpoint of the two middle
\* dates falls, the midpoint of two midnights being a midnight or a noon.
C23_Midpoint ==
    /\ [](\A i \in 1..Len(vprev) :
            Tier1Day(i, (LowerMiddle(PeerDays(vprev, i))
                         + UpperMiddle(PeerDays(vprev, i))) \div 2))
    /\ [][\A i \in 1..Len(vendas) :
            Tier2Day(i, (LowerMiddle(AllDays(vendas))
                         + UpperMiddle(AllDays(vendas))) \div 2)]_vars

\* the sale of an employee whose two other sales are of 01/01/2024 and
\* 04/01/2024 got 02/01/2024, a date no sale of the file has
C23_Witness ==
    /\ DatesDone
    /\ \E i \in 1..Len(vprev) :
          /\ DateIsMissing(vprev[i].data)
          /\ IsEven(PeerDays(vprev, i))
          /\ LowerMiddle(PeerDays(vprev, i)) = Strptime(D0101)
          /\ UpperMiddle(PeerDays(vprev, i)) = Strptime(D0401)
          /\ vendas[i].data = Str(<<"0", "2", "/", "0", "1", "/", "2", "0", "2", "4">>)
          /\ \A j \in 1..Len(vprev) : vprev[j].data # vendas[i].data

(***************************************************************************)
(* The order of the rows.                                                  *)
(***************************************************************************)
\* the rows of df in the order f, every row with its label
Permuted(df, f) == [i \in 1..Len(df) |-> df[f[i]]]

\* C29: the age and the method fill_missing_ages gives a record do not
\* depend on the order of the rows: on the table with its rows permuted,
\* every record comes out as it does on the table itself.
C29_OrderIndependent ==
    [][(pc = "e_fill_missing_ages") =>
          \A f \in Permutations(1..Len(emp)) :
              fill_missing_ages(Permuted(emp, f)) = Permuted(emp', f)]_vars

(***************************************************************************)
(* The audit columns.                                                      *)
(***************************************************************************)
EmpDone == pc = "e_done"

\* the flag and the method of an imputed age go together
AgeTagged(r) ==
    IF r.idade_imputada THEN r.metodo_imputacao_idade \in {MedianaCargo, MedianaGlobal}
    ELSE r.metodo_imputacao_idade = ""

\* the flag and the method of an imputed date go together
DateTagged(r) ==
    IF r.data_imputada
    THEN r.metodo_imputacao \in {MedianaEmpregado, MedianaGlobal, DataAtual, FormatoInvalido}
    ELSE r.metodo_imputacao \in {MetodoNaN, MetodoVazio}

\* C28: when the employee transform returns, idade_imputada is set on
\* exactly the records whose age was empty in the file; validate_age_range
\* sets idade_ajustada on exactly the records whose age it changes; when
\* validate_and_fill_dates returns, data_imputada is set on exactly the sales
\* whose date it replaced; and a method is there exactly when the flag is.
C28_AuditFlags ==
    /\ [](EmpDone =>
            \A i \in 1..Len(emp) :
                /\ emp[i].idade_imputada <=> (empCsv[emp[i].row].idade = <<>>)
                /\ AgeTagged(emp[i]))
    /\ [][(pc = "e_validate_age_range" /\ pc' = "e_done") =>
            \A i \in 1..Len(emp) :
                emp'[i].idade_ajustada <=> (emp'[i].idade # emp[i].idade)]_vars
    /\ [](DatesDone =>
            \A i \in 1..Len(vendas) :
                /\ vendas[i].data_imputada <=> (vendas[i].data # vprev[i].data)
                /\ DateTagged(vendas[i]))

(***************************************************************************)
(* The join of the sales with the categories of the products.              *)
(***************************************************************************)
\* fill_missing_unit_values is about to return
UnitValuesStep == pc = "v_fill_missing_unit_values" /\ pc' = "v_calculate_total_values"

\* the unit values the sales of the category of sale i had
CategoryValues(df, i) ==
    [j \in {j \in 1..Len(df) :
               /\ HasUnitValue(df[j])
               /\ CategoriaDe(df[j], prodDb) = CategoriaDe(df[i], prodDb)}
        |-> ToNumeric(df[j].valor_unitario).n]

\* the unit values the table holds once the categories were gone through:
\* those of every sale but the sales without value and without category
TableValues(before, after) ==
    [j \in {j \in 1..Len(before) :
               /\ HasUnitValue(after[j])
               /\ HasUnitValue(before[j]) \/ ~IsNull(CategoriaDe(before[j], prodDb))}
        |-> after[j].valor_unitario.n]

\* C30: with unique product keys, fill_missing_unit_values returns one row
\* per sale it was given, in the same order, with the columns it was given
\* (no categoria) and nothing but valor_unitario changed; a sale without
\* value takes the median of the values of all the sales of its category,
\* and a sale whose product the table produtos does not hold is kept and
\* takes the median of the values of the whole table.
C30_JoinKeepsSales ==
    [][UnitValuesStep =>
          /\ Len(vendas') = Len(vendas)
          /\ \A i \in 1..Len(vendas) :
                /\ DOMAIN vendas'[i] = DOMAIN vendas[i]
                /\ "categoria" \notin DOMAIN vendas'[i]
                /\ vendas'[i] = [vendas[i] EXCEPT !.valor_unitario = vendas'[i].valor_unitario]
                /\ (/\ ~HasUnitValue(vendas[i])
                    /\ ~IsNull(CategoriaDe(vendas[i], prodDb))
                    /\ ~NoDays(CategoryValues(vendas, i))) =>
                       vendas'[i].valor_unitario = Num(RoundedMedian(CategoryValues(vendas, i)))
                /\ (/\ ~HasUnitValue(vendas[i])
                    /\ IsNull(CategoriaDe(vendas[i], prodDb))
                    /\ ~NoDays(TableValues(vendas, vendas'))) =>
                       vendas'[i].valor_unitario =
                           Num(RoundedMedian(TableValues(vendas, vendas')))]_vars

\* a sale of product 9, which the table produtos does not hold, came without
\* unit value next to a sale with one, and left the stage with a value
C30_Witness ==
    /\ pc = "v_calculate_total_values"
    /\ Len(vendas) = Len(vendasCsv)
    /\ \E i, j \in 1..Len(vendas) :
          /\ vendas[i].id_produto = Num(9)
          /\ vendasCsv[i].valor_unitario = <<>>
          /\ vendasCsv[j].valor_unitario # <<>>
          /\ ~IsNull(vendas[i].valor_unitario)

(***************************************************************************)
(* Properties of the load functions                                        *)
(***************************************************************************)
\* a step that is one call of a load function
Chamada == carga'.chamadas # carga.chamadas

\* the table of bus2 the last call was for
TabelaDeCarga == db["bus2"].tabelas[entrada.tabela]

HasRequired(df) == required_columns(df.tabela) \subseteq df.colunas

\* C21: a load function given a DataFrame that lacks a required column
\* raises ValueError without asking for a connection, and the database, the
\* table it holds included, is left as it was.
C21_SchemaMismatch ==
    [][(Chamada /\ ~HasRequired(entrada'))
         => /\ carga'.tipo = "raise" /\ carga'.erro = "ValueError"
            /\ carga'.inserted_count = 0
            /\ conexoes' = conexoes
            /\ db' = db]_vars

C21_Witness ==
    /\ carga.chamadas = 1 /\ ~HasRequired(entrada) /\ entrada.linhas # <<>>
    /\ carga.tipo = "raise" /\ conexoes = <<>>
    /\ TabelaDeCarga.existe /\ TabelaDeCarga.linhas # <<>>

\* the rows of the DataFrame of the last call the server refused
Refused(df) == {i \in 1..Len(df.linhas) : RowRaises(df.tabela, df.linhas[i])}

KeyOf(df, i) == ToNumeric(df.linhas[i][ChaveDe(df.tabela)])

\* the rows of the DataFrame that add a row to an empty table: not refused,
\* and the first of their key among those not refused
Added(df) ==
    {i \in 1..Len(df.linhas) \ Refused(df) :
        \A j \in 1..(i - 1) : j \in Refused(df) \/ KeyOf(df, j) # KeyOf(df, i)}

Returned == carga.chamadas > 0 /\ carga.tipo = "return"

\* C26: the count a load reports equals the number of rows the call added
\* to the table.
C26_CountIsRowsAdded ==
    Returned => carga.inserted_count = Len(TabelaDeCarga.linhas)

\* C27: once the columns are there and the connection is made, the call
\* returns whatever its rows are: each refused row gives one warning and no
\* row of the table, and every other row is attempted, so its key is in the
\* table afterwards.
C27_RejectedRowSkipped ==
    (carga.chamadas > 0 /\ HasRequired(entrada) /\ carga.erro # "OperationalError")
        => /\ carga.tipo = "return"
           /\ carga.warnings = Cardinality(Refused(entrada))
           /\ \A i \in 1..Len(entrada.linhas) \ Refused(entrada) :
                 \E j \in 1..Len(TabelaDeCarga.linhas) :
                    TabelaDeCarga.linhas[j][ChaveDe(entrada.tabela)] = KeyOf(entrada, i)
           /\ \A j \in 1..Len(TabelaDeCarga.linhas) :
                 \E i \in 1..Len(entrada.linhas) \ Refused(entrada) :
                    TabelaDeCarga.linhas[j] = Parametros(entrada.tabela, entrada.linhas[i])
           /\ Len(TabelaDeCarga.linhas) <= Len(entrada.linhas)

C27_Witness ==
    /\ Returned /\ Len(entrada.linhas) = 2
    /\ 1 \in Refused(entrada) /\ 2 \notin Refused(entrada)
    /\ carga.warnings = 1
    /\ Len(TabelaDeCarga.linhas) = 1

\* C22 as stated: a row the table held before a load is still there, as it
\* was, after the load, and loading the same DataFrame again changes nothing.
C22_Upsert ==
    /\ [](Returned => \A j \in 1..Len(carga.antes) :
                         \E k \in 1..Len(TabelaDeCarga.linhas) :
                            TabelaDeCarga.linhas[k] = carga.antes[j])
    /\ [][(Chamada /\ entrada' = entrada /\ carga.tipo = "return") => db' = db]_vars

\* C22, amended: a load that returns replaces the table.  The table then
\* holds, in the order of the DataFrame, the first row of each key among the
\* rows the server accepts, whatever it held before; within one load a later
\* row of the same key is skipped and does not overwrite; and loading the
\* same DataFrame again leaves the database as it is.
C22_ReplaceFirstPerKey ==
    /\ [](Returned =>
            /\ Len(TabelaDeCarga.linhas) = Cardinality(Added(entrada))
            /\ \A i \in Added(entrada) :
                  TabelaDeCarga.linhas[Cardinality({j \in Added(entrada) : j <= i})]
                      = Parametros(entrada.tabela, entrada.linhas[i]))
    /\ [][(Chamada /\ entrada' = entrada /\ carga.tipo = "return") => db' = db]_vars

\* a load of two rows of one key on a table that held another row
C22_Witness ==
    /\ Returned /\ carga.chamadas = 2
    /\ carga.antes # <<>>
    /\ Len(entrada.linhas) = 2 /\ Added(entrada) = {1} /\ Refused(entrada) = {}
    /\ entrada.linhas[1] # entrada.linhas[2]
    /\ TabelaDeCarga.linhas = <<entrada.linhas[1]>>
    /\ carga.antes[1] # entrada.linhas[1]

(***************************************************************************)
(* Properties of the pipeline and its databases                            *)
(***************************************************************************)
InputMissing == \E i \in 1..Len(ArquivosDeEntrada) : ArquivosDeEntrada[i] \notin arquivos

\* C24: when an input file is missing at the start, the check of the inputs
\* ends the process with status 1 and leaves the databases as they were;
\* from then on no step has started, no connection has been asked for, no
\* table has been handed over by a transform, and nothing happens any more.
C24_MissingInputAborts ==
    /\ [][(pc = "main_check_inputs" /\ InputMissing)
            => /\ status' = "exit 1" /\ pc' = "main_exited"
               /\ db' = db /\ conexoes' = conexoes]_vars
    /\ []((InputMissing /\ pc # "main_check_inputs")
            => /\ status = "exit 1" /\ pc = "main_exited"
               /\ iniciados = <<>> /\ conexoes = <<>>
               /\ prod = <<>> /\ vendas = <<>> /\ emp = <<>> /\ prodDb = <<>>)
    /\ [][pc # "main_exited"]_vars

\* vendas.csv is missing and the databases hold the tables of an earlier run
C24_Witness ==
    /\ "vendas.csv" \notin arquivos /\ "produtos.csv" \in arquivos
    /\ pc = "main_exited" /\ status = "exit 1"
    /\ TemTabelas(db["bus2"]) /\ TemTabelas(db["comercial"])
    /\ db["bus2"].tabelas["produtos"].linhas # <<>>

\* the columns id_produto and categoria of a table of products
Categorias(linhas) ==
    [i \in 1..Len(linhas) |->
        [id_produto |-> linhas[i].id_produto, categoria |-> linhas[i].categoria]]

\* C25: when step 4 returns, the products the sales transform joined against
\* are the cleaned products that step 3 of the run persisted.
C25_JoinsWhatWasLoaded ==
    [][(pc = "main_run_step" /\ passo = 4 /\ passo' = 5)
         => /\ 3 \in {iniciados[i] : i \in 1..Len(iniciados)}
            /\ prodDb' = Categorias(prod)
            /\ prodDb' = Categorias(db["bus2"].tabelas["produtos"].linhas)]_vars

====
